---- MODULE Spec2Model ----
(***************************************************************************)
(* Lithium task interpreter (src/src/task/manager.cpp): the variable       *)
(* store, the label table, the script worker and the host operations that  *)
(* control it, as a state machine.                                         *)
(*                                                                         *)
(* JSON values are records [k, n, s, b] (kind tag, number, string,         *)
(* boolean); an object that carries an operator key is [k, op, l, r].      *)
(* Steps are records with the fields of the JSON step.  Indices are        *)
(* 0-based as in the code (script[i] is steps[i + 1]).                     *)
(***************************************************************************)
EXTENDS Integers, Sequences, FiniteSets

VARIABLES
    scripts,           \* impl_->scripts_: name -> array of steps
    labels,            \* impl_->labels_: label -> index (one map for all scripts)
    labelCache,        \* static labelCache of executeGoto
    gotoDepthCounter,  \* static gotoDepthCounter of executeGoto
    variables,         \* impl_->variables_: name -> [type, value]
    stopRequested,     \* impl_->stopRequested_
    pauseRequested,    \* impl_->pauseRequested_
    isRunning,         \* impl_->isRunning_
    worker,            \* impl_->executionThread_: [pc, script, exc]
    idx,               \* size_t i of the worker's loop, passed by reference as idx
    stack,             \* the worker's active executeLoop/executeSteps/... frames
    host,              \* the host thread: the call it is inside, its last outcome
    cur,               \* the step the worker began last (history)
    prev,              \* the step the worker began before that (history)
    trace,             \* the last top-level indices begun in this execution (history)
    budget,            \* host calls still allowed (model bound)
    executionThread,   \* the thread executionThread_ holds: "none", "first", "second"
    second,            \* a second host thread calling execute, and the worker it starts
    pool,              \* the tasks given to the thread pool, in order of enqueue
    eventQueue,        \* eventQueue_: (key, data) pairs, head first
    marks,             \* history: labelled steps begun in this execution, by label
    sleeps,            \* history: the sleeps of retry steps in this execution, in ms
    functions,         \* impl_->functions_: name -> the function registered or defined
    exceptionHandlers, \* impl_->exceptionHandlers_: the script names with a handler
    handled,           \* history: the errors the handlers were invoked with
    callbacks,         \* history: the callbacks begun, each with the lock its thread held
    driver,            \* impl_->driver: [processHandle, stdinFd, stdoutFd, name]
    shouldExit,        \* impl_->shouldExit
    driverThread,      \* impl_->driverThread: the thread it holds, 0 when not joinable
    threads,           \* the component's threads: 1 is the caller, the others run backgroundProcessing
    procs,             \* the child processes forked so far; the pid is the index
    shm,               \* the shared memory objects made so far, and the one named SHM_NAME (0: none)
    component,         \* the process that holds the component: "alive" or "terminated"
    stopsReturned,     \* history: the stop() calls that have returned
    registry           \* the ComponentManager: libraries, components, global pointers, manifests

vars == <<scripts, labels, labelCache, gotoDepthCounter, variables, stopRequested,
          pauseRequested, isRunning, worker, idx, stack, host, cur, prev, trace, budget,
          executionThread, second, pool, eventQueue, marks, sleeps,
          functions, exceptionHandlers, handled, callbacks,
          driver, shouldExit, driverThread, threads, procs, shm, component, stopsReturned,
          registry>>

-----------------------------------------------------------------------------
(* Bounds of the model *)

\* size_t is modelled at this width; only the wrap at its maximum matters.
SizeBits == 16
\* Host calls of each kind in one behaviour.
MaxLoads == 2
MaxExecutes == 2
MaxSets == 1
MaxGets == 1
MaxEvents == 3
MaxRegisters == 1
\* The driver supervisor: threads of the component (the caller and the
\* background threads), child processes forked, stop() calls.
MaxThreads == 4
MaxChildren == 3
MaxStops == 2
MaxPauses == 1
\* Entries the history variable trace keeps.
MaxTrace == 4
\* gotoDepthCounter values above MAX_GOTO_DEPTH + CounterSlack are folded into
\* one: the code only ever compares the counter with MAX_GOTO_DEPTH.
CounterSlack == 2
\* Counts of the history variable marks are folded into one above this.
MaxMarks == 4

-----------------------------------------------------------------------------
(* Program constants *)

MAX_GOTO_DEPTH == 100

SizeMax == 2^SizeBits - 1

-----------------------------------------------------------------------------
(* JSON values *)

JNum(n) == [k |-> "number", n |-> n, s |-> "", b |-> FALSE]
JStr(s) == [k |-> "string", n |-> 0, s |-> s, b |-> FALSE]
JBool(b) == [k |-> "boolean", n |-> 0, s |-> "", b |-> b]
JNull == [k |-> "null", n |-> 0, s |-> "", b |-> FALSE]
\* an object / array without operator key (structured data)
JData == [k |-> "object", n |-> 0, s |-> "", b |-> FALSE]
JOp(op, l, r) == [k |-> "object", op |-> op, l |-> l, r |-> r]

VariableType == {"NUMBER", "STRING", "BOOLEAN", "JSON", "UNKNOWN"}

determineType(value) ==
    CASE value.k = "number" -> "NUMBER"
      [] value.k = "string" -> "STRING"
      [] value.k = "boolean" -> "BOOLEAN"
      [] value.k = "object" -> "JSON"
      [] OTHER -> "UNKNOWN"

\* The strings of the model in lexicographic order, and what the code's
\* character tests say about each.
StringOrder == <<"$x", "$y", "a", "b">>
StartsWithDollar(s) == s \in {"$x", "$y"}
StripDollar(s) == CASE s = "$x" -> "x" [] s = "$y" -> "y" [] OTHER -> s
\* find_first_of("+-*/%^!&|<=>") on the model's strings
HasOperatorChar(s) == FALSE
StrIndex(s) == CHOOSE i \in 1..Len(StringOrder) : StringOrder[i] = s

\* Outcome of an evaluation: a value, or the exception it raised.
Val(v) == [ok |-> TRUE, v |-> v, e |-> ""]
Raise(e) == [ok |-> FALSE, v |-> JNull, e |-> e]

\* json::get<int>() / get<double>(): numbers and booleans convert, others throw
IsArithmetic(v) == v.k \in {"number", "boolean"}
GetInt(v) == IF v.k = "boolean" THEN (IF v.b THEN 1 ELSE 0) ELSE v.n

\* nlohmann operator< : same kind by value, different kinds by kind order
KindOrder(k) ==
    CASE k = "null" -> 0 [] k = "boolean" -> 1 [] k = "number" -> 2
      [] k = "object" -> 3 [] OTHER -> 5
JsonLess(a, b) ==
    IF a.k = b.k
    THEN CASE a.k = "number" -> a.n < b.n
           [] a.k = "boolean" -> (~a.b) /\ b.b
           [] a.k = "string" -> StrIndex(a.s) < StrIndex(b.s)
           [] OTHER -> FALSE
    ELSE KindOrder(a.k) < KindOrder(b.k)

\* evaluateExpression on a one-token expression (a variable name)
evaluateExpression(token, store) ==
    IF token \in DOMAIN store
    THEN IF IsArithmetic(store[token].value)
         THEN Val(JNum(GetInt(store[token].value)))
         ELSE Raise("json.type_error")
    ELSE Raise("invalid_argument")

RECURSIVE evaluate(_, _)
evaluate(value, store) ==
    IF value.k = "string"
    THEN IF value.s \in DOMAIN store THEN Val(store[value.s].value)
         ELSE IF HasOperatorChar(value.s) THEN evaluateExpression(value.s, store)
         ELSE IF StartsWithDollar(value.s)
              THEN evaluateExpression(StripDollar(value.s), store)
         ELSE Val(value)
    ELSE IF value.k \in {"number", "boolean"} THEN Val(value)
    ELSE IF value.k = "object" /\ "op" \in DOMAIN value
    THEN LET left == evaluate(value.l, store)
             right == evaluate(value.r, store)
         IN  IF ~left.ok THEN left
             ELSE IF ~right.ok THEN right
             ELSE CASE value.op = "$eq" ->
                         IF determineType(left.v) # determineType(right.v)
                         THEN Raise("runtime_error")
                         ELSE Val(JBool(left.v = right.v))
                    [] value.op = "$ne" -> Val(JBool(left.v # right.v))
                    [] value.op = "$gt" -> Val(JBool(JsonLess(right.v, left.v)))
                    [] value.op = "$sub" ->
                         IF IsArithmetic(left.v) /\ IsArithmetic(right.v)
                         THEN Val(JNum(GetInt(left.v) - GetInt(right.v)))
                         ELSE Raise("json.type_error")
                    [] OTHER -> Val(value)
    ELSE Val(value)

-----------------------------------------------------------------------------
(* Steps and the scripts the host may load *)

Assign(name, value) == [type |-> "assign", variable |-> name, value |-> value]
Log == [type |-> "print", message |-> JStr("a")]
LogAt(label) == [type |-> "print", message |-> JStr("a"), label |-> label]
Goto(label) == [type |-> "goto", label |-> label]
Return(value) == [type |-> "return", value |-> value]
Break == [type |-> "break"]
Continue == [type |-> "continue"]
Throw(t) == [type |-> "throw", exception_type |-> t]
Condition(c, step) == [type |-> "condition", condition |-> c, true |-> step]
Loop(n, steps) == [type |-> "loop", loop_iterations |-> JNum(n), steps |-> steps]
While(c, steps) == [type |-> "while", condition |-> c, steps |-> steps]
CatchAll == <<[type |-> "all", steps |-> <<>>]>>
Try(steps, catch) == [type |-> "try", try |-> steps, catch |-> catch]

\* a step with a "label" field added
Mark(step, label) ==
    [f \in DOMAIN step \cup {"label"} |-> IF f = "label" THEN label ELSE step[f]]
CatchEntry(t, steps) == [type |-> t, steps |-> steps]
TryFinally(steps, catch, finally) ==
    [type |-> "try", try |-> steps, catch |-> catch, finally |-> finally]
TryElse(steps, catch, finally, else) ==
    [type |-> "try", try |-> steps, catch |-> catch, finally |-> finally,
     else |-> else]

Retry(n, delay, backoff, steps) ==
    [type |-> "retry", retries |-> JNum(n), delay |-> JNum(delay),
     exponential_backoff |-> JBool(backoff), steps |-> steps]
RetryOn(t, n, steps) ==
    [type |-> "retry", retries |-> JNum(n), error_type |-> t, steps |-> steps]

\* The string of an event: its part before the first '@' and its part after
\* it ("" when the string has no '@'), so that eventName + "@" + channel is
\* EventKey(eventName, channel).
EventKey(name, channel) == [name |-> name, channel |-> channel]
Raw(name) == EventKey(name, "")
WaitEvent(event) == [type |-> "wait_event", event |-> event]
Broadcast(name, channel) ==
    [type |-> "broadcast_event", event_name |-> name, channel |-> channel]
BroadcastDefault(name) == [type |-> "broadcast_event", event_name |-> name]

Call(function) == [type |-> "call", function |-> function]
CallInto(function, result) == [type |-> "call", function |-> function, result |-> result]
NestedScript(script) == [type |-> "nested_script", script |-> script]
\* the step type "function" (executeFunction)
Function(name) == [type |-> "function", name |-> name]
\* a scope step with the given fields (variables: name/value pairs in key
\* order; functions: function definitions)
Scope(fields) ==
    [f \in DOMAIN fields \cup {"type"} |-> IF f = "type" THEN "scope" ELSE fields[f]]
FunctionDef(name, steps) == [type |-> "function_def", name |-> name, steps |-> steps]
Parallel(steps) == [type |-> "parallel", steps |-> steps]
\* listen_event with event_steps (a map from event names to steps)
Listen(names, channel, timeout, eventSteps) ==
    [type |-> "listen_event", event_names |-> names, channel |-> channel,
     timeout |-> JNum(timeout), event_steps |-> eventSteps]
\* listen_event without a timeout, with the fall-back steps
ListenSteps(names, channel, steps) ==
    [type |-> "listen_event", event_names |-> names, channel |-> channel,
     steps |-> steps]

XPositive == JOp("$gt", JStr("$x"), JNum(0))

\* scenario S1 of the specification
S1 == <<Assign("x", JNum(5)), Assign("y", JOp("$sub", JStr("$x"), JNum(2))),
        Return(JStr("$y"))>>
\* scenario S2 of the specification (count down from 2)
S2 == <<Assign("x", JNum(2)),
        While(XPositive, <<Log, Assign("x", JOp("$sub", JStr("$x"), JNum(1)))>>)>>
SKinds == <<Assign("x", JNum(1)), Assign("x", JStr("a")), Assign("x", JStr("b"))>>
SThrow == <<Log, Throw("runtime_error"), Log>>
SGotoForward == <<Goto("M"), Log, LogAt("M"), Log>>
SGotoBack == <<LogAt("L"), Condition(JBool(TRUE), Goto("L"))>>
SGotoTry == <<LogAt("L"), Try(<<Goto("L")>>, CatchAll)>>
SGotoOther == <<Condition(JBool(TRUE), Goto("L")), Log>>
SGotoNone == <<Condition(JBool(TRUE), Goto("N")), Log>>
SLoop == <<Loop(2, <<Log, Log>>), Log>>
SBreak == <<Loop(2, <<Break, Log>>), Log>>
SContinue == <<Log, Loop(2, <<Continue, Log>>), Log>>
SWhileTrue == <<Assign("x", JNum(1)), While(XPositive, <<Log>>)>>
STry == <<Try(<<Throw("runtime_error"), Log>>, CatchAll), Log>>

\* scenario S4 of the specification
S4 == <<TryFinally(<<Throw("runtime_error")>>,
                   <<CatchEntry("all", <<Mark(Assign("handled", JBool(TRUE)), "C1")>>)>>,
                   <<Mark(Assign("done", JBool(TRUE)), "F")>>)>>
STryElse == <<TryElse(<<Log>>, <<CatchEntry("all", <<Mark(Log, "C1")>>)>>,
                      <<Mark(Log, "F")>>, <<Mark(Log, "E")>>)>>
STryTyped == <<TryElse(<<Throw("runtime_error")>>,
                       <<CatchEntry("runtime_error", <<Mark(Log, "C1")>>),
                         CatchEntry("all", <<Mark(Log, "C2")>>)>>,
                       <<Mark(Log, "F")>>, <<Mark(Log, "E")>>)>>
STryCatchThrows == <<TryFinally(<<Throw("runtime_error")>>,
                                <<CatchEntry("all", <<Mark(Throw("out_of_range"), "C1")>>)>>,
                                <<Mark(Log, "F")>>)>>
STryNoMatch == <<TryFinally(<<Throw("runtime_error")>>,
                            <<CatchEntry("out_of_range", <<Mark(Log, "C1")>>)>>,
                            <<Mark(Log, "F")>>)>>

\* scenario S3 of the specification
S3 == <<Retry(2, 10, TRUE, <<Mark(Throw("runtime_error"), "R")>>)>>
SRetryOnce == <<Retry(2, 10, TRUE, <<Mark(Log, "R")>>)>>
\* the second attempt succeeds
SRetryTwice ==
    <<Assign("x", JNum(2)),
      Retry(2, 10, FALSE,
            <<Mark(Assign("x", JOp("$sub", JStr("$x"), JNum(1))), "R"),
              Condition(XPositive, Throw("runtime_error"))>>)>>
SRetryZero == <<Retry(0, 10, TRUE, <<Mark(Throw("out_of_range"), "R")>>)>>
SRetryOn == <<RetryOn("out_of_range", 1, <<Mark(Throw("runtime_error"), "R")>>)>>

SPrints == <<Log, Log>>

SWaitTwo == <<WaitEvent(Raw("T")), WaitEvent(Raw("U")), Log>>
SWaitOne == <<WaitEvent(Raw("U")), Log>>

FlowLibrary == {S1, S2, SThrow, SLoop, SBreak, SContinue, SWhileTrue, STry}
StoreLibrary == {S1, SKinds}
TryLibrary == {S4, STryElse, STryTyped, STryCatchThrows, STryNoMatch}
RetryLibrary == {S3, SRetryOnce, SRetryTwice, SRetryZero, SRetryOn}
CallersLibrary == {SPrints, SThrow}
\* parallel steps: a child that throws next to one that prints; children that
\* print; a waiter for topic T next to a broadcast of T; scenario S5 (event
\* fan-in: worker A listens for "ready" on channel "c", worker B broadcasts
\* it), with event steps that print and with event steps that assign
SParThrow == <<Parallel(<<Throw("runtime_error"), Log>>)>>
SParPrints == <<Parallel(<<Log, Log>>), Log>>
SParWait == <<Parallel(<<WaitEvent(Raw("T")), BroadcastDefault("T")>>)>>
S5 == <<Parallel(<<Listen(<<"ready">>, "c", 1000,
                          [ready |-> <<Mark(Log, "L1"), Mark(Log, "L2")>>]),
                   Broadcast("ready", "c")>>)>>
S5Assign == <<Parallel(<<Listen(<<"ready">>, "c", 1000,
                                [ready |-> <<Mark(Assign("x", JNum(1)), "L1"),
                                             Mark(Log, "L2")>>]),
                         Broadcast("ready", "c")>>)>>
\* an assign next to a listen_event that holds the lock while its steps run,
\* and an assign among the steps of a listen_event
SContend == <<Broadcast("ready", "c"),
              Parallel(<<ListenSteps(<<"ready">>, "c", <<Log, Log>>),
                         Assign("x", JNum(1))>>)>>
SOwnLock == <<Broadcast("ready", "c"),
              ListenSteps(<<"ready">>, "c", <<Assign("x", JNum(1)), Log>>)>>
LockLibrary == {SContend, SOwnLock}
\* callbacks: a call step and a function step on the registered function f, a
\* step that throws (for the handler of the script), the steps of a
\* listen_event
SCall == <<CallInto("f", "y"), Log>>
SFunction == <<Function("f"), Log>>
SListen == <<Broadcast("ready", "c"), ListenSteps(<<"ready">>, "c", <<Log>>), Log>>
CallbackLibrary == {SCall, SFunction, SThrow, SListen}
\* comparisons: one assign of an $eq or $ne of two literals
CompareOps == {"$eq", "$ne"}
CompareValues == {JNum(1), JNum(2), JStr("a"), JBool(TRUE)}
SCompare(op, l, r) == <<Assign("r", JOp(op, l, r)), Log>>
CompareLibrary ==
    {SCompare(op, l, r) : op \in CompareOps, l \in CompareValues, r \in CompareValues}
\* steps that raise: at the top level, in a child of a parallel (next to a
\* parallel whose children end normally), a wait_event
\* without "event", and among the steps of a listen_event
SWaitNoEvent == <<[type |-> "wait_event"], Log>>
SListenThrows == <<Broadcast("ready", "c"),
                   ListenSteps(<<"ready">>, "c", <<Throw("runtime_error")>>), Log>>
EscapeLibrary == {SThrow, SParThrow, SParPrints, SWaitNoEvent, SListenThrows}
\* nested scripts: an outer script whose middle step runs the script loaded as
\* "B", and the script to load as "B"
SNestOuter == <<Mark(Log, "O1"), NestedScript("B"), Mark(Log, "O2")>>
SNestInner == <<Mark(Log, "N1"), Mark(Log, "N2")>>
NestLibrary == {SNestOuter, SNestInner}
\* scope steps: steps that end, steps that throw without and with on_error,
\* a function defined by the scope, a scope variable; the cleanup step is K
SScopeEnds == <<Scope([steps |-> <<Log>>, cleanup |-> <<Mark(Log, "K")>>]), Log>>
SScopeThrows == <<Scope([steps |-> <<Throw("runtime_error")>>,
                         cleanup |-> <<Mark(Log, "K")>>]), Log>>
SScopeOnError == <<Scope([steps |-> <<Throw("runtime_error")>>, on_error |-> <<Log>>,
                          cleanup |-> <<Mark(Log, "K")>>]), Log>>
SScopeFunction == <<Scope([functions |-> <<FunctionDef("g", <<Log>>)>>,
                           steps |-> <<Log>>, cleanup |-> <<Mark(Log, "K")>>])>>
SScopeVariable == <<Scope([variables |-> <<[name |-> "x", value |-> JNum(1)]>>,
                           steps |-> <<Log>>, cleanup |-> <<Mark(Log, "K")>>])>>
ScopeLibrary == {SScopeEnds, SScopeThrows, SScopeOnError, SScopeFunction, SScopeVariable}
FanLibrary == {SParThrow, SParPrints, SParWait, S5, S5Assign}

EventLibrary == {SWaitTwo, SWaitOne}
EventKeys == {Raw("T"), Raw("U")}
GotoLibrary == {SGotoForward, SGotoBack, SGotoTry, SGotoOther, SGotoNone}

ScriptNames == {"A", "B"}

\* the flow scripts are all loaded under one name; "B" stays unknown there
FlowNames == {"A"}
SetNames == {"x"}
SetValues == {JNum(1), JStr("a"), JNull}
SetTypes == {"NUMBER", "STRING", "UNKNOWN"}

-----------------------------------------------------------------------------
(* Helpers *)

Put(f, key, v) == [n \in DOMAIN f \cup {key} |-> IF n = key THEN v ELSE f[n]]
Empty == [n \in {} |-> 0]
Min(a, b) == IF a < b THEN a ELSE b
Top(stk) == stk[Len(stk)]
Pop(stk) == SubSeq(stk, 1, Len(stk) - 1)
Has(step, field) == field \in DOMAIN step
\* one more step with this label has begun
Bump(m, label) == Put(m, label, IF label \in DOMAIN m THEN Min(m[label] + 1, MaxMarks) ELSE 1)

\* a worker loop that forgets the i++ (a variant C6 must tell apart)
IncStuck(i) == i

\* size_t ++
Inc(i) == (i + 1) % (SizeMax + 1)

NoStep == [seq |-> 0, lvl |-> -1, top |-> 0, type |-> "none", label |-> "",
           res |-> "none", err |-> ""]
NoSecond == [pc |-> "idle", name |-> "", thread |-> "none", i |-> 0]
NoCall == [seq |-> 0, op |-> "none", name |-> "", value |-> JNull, type |-> "",
           ok |-> TRUE]

-----------------------------------------------------------------------------
(* Initial state: a constructed TaskInterpreter and a constructed component *)

\* a thread of the component: where it is, the argument and the child of the
\* start it is inside, the shared memory it mapped, whether that start
\* recorded a child; for a background thread, whether the start that made it
\* had recorded a child (history) and the child whose exit its monitor saw
CallerThread == [pc |-> "idle", name |-> "", pid |-> 0, obj |-> 0, ok |-> FALSE,
                 target |-> 0, after |-> FALSE, saw |-> 0]

Init ==
    /\ scripts = Empty
    /\ labels = Empty
    /\ labelCache = Empty
    /\ gotoDepthCounter = Empty
    /\ variables = Empty
    /\ stopRequested = FALSE
    /\ pauseRequested = FALSE
    /\ isRunning = FALSE
    /\ worker = [pc |-> "none", script |-> "", exc |-> ""]
    /\ idx = 0
    /\ stack = <<>>
    /\ host = [pc |-> "idle", name |-> "", last |-> NoCall]
    /\ cur = NoStep
    /\ prev = NoStep
    /\ trace = <<>>
    /\ budget = [loads |-> MaxLoads, executes |-> MaxExecutes, sets |-> MaxSets,
                 pauses |-> MaxPauses, gets |-> MaxGets, events |-> MaxEvents, functions |-> MaxRegisters,
                 handlers |-> MaxRegisters]
    /\ executionThread = "none"
    /\ second = NoSecond
    /\ pool = <<>>
    /\ eventQueue = <<>>
    /\ marks = Empty
    /\ sleeps = <<>>
    /\ functions = Empty
    /\ exceptionHandlers = {}
    /\ handled = <<>>
    /\ callbacks = {}
    /\ driver = [processHandle |-> 0, stdinFd |-> 0, stdoutFd |-> 0, name |-> ""]
    /\ shouldExit = FALSE
    /\ driverThread = 0
    /\ threads = <<CallerThread>>
    /\ procs = <<>>
    /\ shm = [name |-> 0, objs |-> <<>>]
    /\ component = "alive"
    /\ stopsReturned = 0
    /\ registry = [pc |-> "new", todo |-> <<>>, libraries |-> {}, components |-> Empty, ptrs |-> {},
                   infos |-> Empty, called |-> {}, injected |-> {},
                   last |-> [seq |-> 0, op |-> "none", name |-> "", res |-> "none"]]

-----------------------------------------------------------------------------
(* Host operations *)

WorkerIdle == worker.pc \in {"none", "done"}

Called(op, name, value, type, ok) ==
    [seq |-> 1 - host.last.seq, op |-> op, name |-> name, value |-> value,
     type |-> type, ok |-> ok]

\* parseLabels: every top-level step that has a "label" field
RECURSIVE parseLabels(_, _, _)
parseLabels(script, i, map) ==
    IF i >= Len(script) THEN map
    ELSE parseLabels(script, i + 1,
                     IF Has(script[i + 1], "label")
                     THEN Put(map, script[i + 1].label, i) ELSE map)

\* loadScript(name, script) for a script without header whose macro
\* pre-processing succeeds; the host loads between executions.
LoadScript(name, script) ==
    /\ host.pc = "idle"
    /\ WorkerIdle
    /\ budget.loads > 0
    /\ budget' = [budget EXCEPT !.loads = @ - 1]
    /\ scripts' = Put(scripts, name, script)
    /\ labels' = parseLabels(script, 0, labels)
    /\ host' = [host EXCEPT !.last = Called("loadScript", name, JNull, "", TRUE)]
    /\ UNCHANGED <<labelCache, gotoDepthCounter, variables, stopRequested,
                   pauseRequested, isRunning, worker, idx, stack, cur, prev, trace,
                   executionThread, second, pool, eventQueue, marks, sleeps,
                   functions, exceptionHandlers, handled, callbacks,
                   driver, shouldExit, driverThread, threads, procs, shm, component, stopsReturned,
                   registry>>

\* a setVariable that checks the value against the declared kind only
\* (a variant C2 must tell apart)
setVariableOkValueOnly(name, value, type) == determineType(value) = type

\* setVariable: waits on cv_ until !isRunning_, then checks and stores
setVariableOk(name, value, type) ==
    /\ determineType(value) = type
    /\ (name \in DOMAIN variables => variables[name].type = type)

SetVariable(name, value, type) ==
    /\ host.pc = "idle"
    /\ budget.sets > 0
    /\ ~isRunning
    /\ budget' = [budget EXCEPT !.sets = @ - 1]
    /\ IF setVariableOk(name, value, type)
       THEN /\ variables' = Put(variables, name, [type |-> type, value |-> value])
            /\ host' = [host EXCEPT !.last = Called("setVariable", name, value, type, TRUE)]
       ELSE /\ variables' = variables
            /\ host' = [host EXCEPT !.last = Called("setVariable", name, value, type, FALSE)]
    /\ UNCHANGED <<scripts, labels, labelCache, gotoDepthCounter, stopRequested,
                   pauseRequested, isRunning, worker, idx, stack, cur, prev, trace,
                   executionThread, second, pool, eventQueue, marks, sleeps,
                   functions, exceptionHandlers, handled, callbacks,
                   driver, shouldExit, driverThread, threads, procs, shm, component, stopsReturned,
                   registry>>

\* getVariable: waits on cv_ until !isRunning_, then reads the store
GetVariable(name) ==
    /\ host.pc = "idle"
    /\ budget.gets > 0
    /\ ~isRunning
    /\ budget' = [budget EXCEPT !.gets = @ - 1]
    /\ host' = [host EXCEPT !.last =
                    IF name \in DOMAIN variables
                    THEN Called("getVariable", name, variables[name].value,
                                variables[name].type, TRUE)
                    ELSE Called("getVariable", name, JNull, "", FALSE)]
    /\ UNCHANGED <<scripts, labels, labelCache, gotoDepthCounter, variables,
                   stopRequested, pauseRequested, isRunning, worker, idx, stack,
                   cur, prev, trace,
                   executionThread, second, pool, eventQueue, marks, sleeps,
                   functions, exceptionHandlers, handled, callbacks,
                   driver, shouldExit, driverThread, threads, procs, shm, component, stopsReturned,
                   registry>>

\* What a registered function is to the interpreter: a value it returns (the
\* scripts checked call registered functions only, without params).
Registered(value) == [kind |-> "registered", returns |-> value]

\* registerFunction(name, func): throws when the name is taken
RegisterFunction(name, value) ==
    /\ host.pc = "idle"
    /\ budget.functions > 0
    /\ budget' = [budget EXCEPT !.functions = @ - 1]
    /\ functions' = IF name \in DOMAIN functions THEN functions
                    ELSE Put(functions, name, Registered(value))
    /\ host' = [host EXCEPT !.last = Called("registerFunction", name, value, "",
                                            name \notin DOMAIN functions)]
    /\ UNCHANGED <<scripts, labels, labelCache, gotoDepthCounter, variables,
                   stopRequested, pauseRequested, isRunning, worker, idx, stack,
                   cur, prev, trace, executionThread, second, pool, eventQueue,
                   marks, sleeps, exceptionHandlers, handled, callbacks,
                   driver, shouldExit, driverThread, threads, procs, shm, component, stopsReturned,
                   registry>>

\* registerExceptionHandler(name, handler)
RegisterExceptionHandler(name) ==
    /\ host.pc = "idle"
    /\ budget.handlers > 0
    /\ budget' = [budget EXCEPT !.handlers = @ - 1]
    /\ exceptionHandlers' = exceptionHandlers \cup {name}
    /\ host' = [host EXCEPT !.last = Called("registerExceptionHandler", name, JNull,
                                            "", TRUE)]
    /\ UNCHANGED <<scripts, labels, labelCache, gotoDepthCounter, variables,
                   stopRequested, pauseRequested, isRunning, worker, idx, stack,
                   cur, prev, trace, executionThread, second, pool, eventQueue,
                   marks, sleeps, functions, handled, callbacks,
                   driver, shouldExit, driverThread, threads, procs, shm, component, stopsReturned,
                   registry>>

\* queueEvent(eventName, eventData): append under the lock, notify
QueueEvent(key) ==
    /\ host.pc = "idle"
    /\ budget.events > 0
    /\ budget' = [budget EXCEPT !.events = @ - 1]
    /\ eventQueue' = Append(eventQueue, key)
    /\ host' = [host EXCEPT !.last = Called("queueEvent", key.name, JNull, "", TRUE)]
    /\ UNCHANGED <<scripts, labels, labelCache, gotoDepthCounter, variables,
                   stopRequested, pauseRequested, isRunning, worker, idx, stack,
                   cur, prev, trace, executionThread, second, pool, marks, sleeps,
                   functions, exceptionHandlers, handled, callbacks,
                   driver, shouldExit, driverThread, threads, procs, shm, component, stopsReturned,
                   registry>>

\* execute(name), first half: clear the stop flag, raise the running flag
ExecuteBegin(name) ==
    /\ host.pc = "idle"
    /\ budget.executes > 0
    /\ budget' = [budget EXCEPT !.executes = @ - 1]
    /\ stopRequested' = FALSE
    /\ isRunning' = TRUE
    /\ host' = [host EXCEPT !.pc = "execute", !.name = name]
    /\ UNCHANGED <<scripts, labels, labelCache, gotoDepthCounter, variables,
                   pauseRequested, worker, idx, stack, cur, prev, trace,
                   executionThread, second, pool, eventQueue, marks, sleeps,
                   functions, exceptionHandlers, handled, callbacks,
                   driver, shouldExit, driverThread, threads, procs, shm, component, stopsReturned,
                   registry>>

\* executionThread_.join() returns (or the thread is not joinable): the thread
\* the handle holds has ended
JoinReturns ==
    /\ WorkerIdle
    /\ executionThread = "second" => second.thread \in {"none", "done"}

\* execute(name), second half: join the previous worker, look the script up,
\* start the new worker
ExecuteSpawn ==
    /\ host.pc = "execute"
    /\ JoinReturns
    /\ IF host.name \in DOMAIN scripts
       THEN /\ worker' = [pc |-> "running", script |-> host.name, exc |-> ""]
            /\ host' = [host EXCEPT !.pc = "idle",
                                    !.last = Called("execute", host.name, JNull, "", TRUE)]
       ELSE /\ worker' = [worker EXCEPT !.pc = "none"]
            /\ host' = [host EXCEPT !.pc = "idle",
                                    !.last = Called("execute", host.name, JNull, "", FALSE)]
    /\ idx' = 0
    /\ stack' = <<>>
    /\ cur' = NoStep
    /\ prev' = NoStep
    /\ trace' = <<>>
    /\ marks' = Empty
    /\ sleeps' = <<>>
    /\ executionThread' = IF host.name \in DOMAIN scripts THEN "first" ELSE executionThread
    /\ UNCHANGED <<scripts, labels, labelCache, gotoDepthCounter, variables,
                   stopRequested, pauseRequested, isRunning, budget,
                   second, pool, eventQueue,
                   functions, exceptionHandlers, handled, callbacks,
                   driver, shouldExit, driverThread, threads, procs, shm, component, stopsReturned,
                   registry>>

\* stop(), first half: raise the stop flag
StopBegin ==
    /\ host.pc = "idle"
    /\ worker.pc \in {"running", "exit"}
    /\ stopRequested' = TRUE
    /\ host' = [host EXCEPT !.pc = "stop"]
    /\ UNCHANGED <<scripts, labels, labelCache, gotoDepthCounter, variables,
                   pauseRequested, isRunning, worker, idx, stack, cur, prev, trace,
                   budget,
                   executionThread, second, pool, eventQueue, marks, sleeps,
                   functions, exceptionHandlers, handled, callbacks,
                   driver, shouldExit, driverThread, threads, procs, shm, component, stopsReturned,
                   registry>>

\* stop(), second half: join returns once the worker has finished
StopJoin ==
    /\ host.pc = "stop"
    /\ WorkerIdle
    /\ host' = [host EXCEPT !.pc = "idle",
                            !.last = Called("stop", "", JNull, "", TRUE)]
    /\ UNCHANGED <<scripts, labels, labelCache, gotoDepthCounter, variables,
                   stopRequested, pauseRequested, isRunning, worker, idx, stack,
                   cur, prev, trace, budget,
                   executionThread, second, pool, eventQueue, marks, sleeps,
                   functions, exceptionHandlers, handled, callbacks,
                   driver, shouldExit, driverThread, threads, procs, shm, component, stopsReturned,
                   registry>>

Pause ==
    /\ budget.pauses > 0
    /\ budget' = [budget EXCEPT !.pauses = @ - 1]
    /\ pauseRequested' = TRUE
    /\ UNCHANGED <<scripts, labels, labelCache, gotoDepthCounter, variables,
                   stopRequested, isRunning, worker, idx, stack, host, cur, prev,
                   trace,
                   executionThread, second, pool, eventQueue, marks, sleeps,
                   functions, exceptionHandlers, handled, callbacks,
                   driver, shouldExit, driverThread, threads, procs, shm, component, stopsReturned,
                   registry>>

Resume ==
    /\ pauseRequested
    /\ pauseRequested' = FALSE
    /\ UNCHANGED <<scripts, labels, labelCache, gotoDepthCounter, variables,
                   stopRequested, isRunning, worker, idx, stack, host, cur, prev,
                   trace, budget,
                   executionThread, second, pool, eventQueue, marks, sleeps,
                   functions, exceptionHandlers, handled, callbacks,
                   driver, shouldExit, driverThread, threads, procs, shm, component, stopsReturned,
                   registry>>

-----------------------------------------------------------------------------
(* A second host thread that calls execute(name) once, concurrently with the *)
(* first, and the worker it starts.                                          *)

SecondExecuteBegin(name) ==
    /\ second.pc = "idle"
    /\ stopRequested' = FALSE
    /\ isRunning' = TRUE
    /\ second' = [second EXCEPT !.pc = "begun", !.name = name]
    /\ UNCHANGED <<scripts, labels, labelCache, gotoDepthCounter, variables,
                   pauseRequested, worker, idx, stack, host, cur, prev, trace, budget,
                   executionThread, pool, eventQueue, marks, sleeps,
                   functions, exceptionHandlers, handled, callbacks,
                   driver, shouldExit, driverThread, threads, procs, shm, component, stopsReturned,
                   registry>>

\* if (executionThread_.joinable()) join(); then the look-up of the script
SecondExecuteJoin ==
    /\ second.pc = "begun"
    /\ JoinReturns
    /\ second' = [second EXCEPT !.pc = IF second.name \in DOMAIN scripts
                                        THEN "checked" ELSE "returned"]
    /\ UNCHANGED <<scripts, labels, labelCache, gotoDepthCounter, variables,
                   stopRequested, pauseRequested, isRunning, worker, idx, stack, host,
                   cur, prev, trace, budget, executionThread, pool, eventQueue, marks,
                   sleeps,
                   functions, exceptionHandlers, handled, callbacks,
                   driver, shouldExit, driverThread, threads, procs, shm, component, stopsReturned,
                   registry>>

\* std::jthread([...]{...}): the new worker thread starts running
SecondExecuteSpawn ==
    /\ second.pc = "checked"
    /\ second' = [second EXCEPT !.pc = "spawned", !.thread = "running", !.i = 0]
    /\ UNCHANGED <<scripts, labels, labelCache, gotoDepthCounter, variables,
                   stopRequested, pauseRequested, isRunning, worker, idx, stack, host,
                   cur, prev, trace, budget, executionThread, pool, eventQueue, marks,
                   sleeps,
                   functions, exceptionHandlers, handled, callbacks,
                   driver, shouldExit, driverThread, threads, procs, shm, component, stopsReturned,
                   registry>>

\* executionThread_ = (the new thread): the move assignment joins the thread
\* the handle held before
SecondExecuteAssign ==
    /\ second.pc = "spawned"
    /\ executionThread = "first" => WorkerIdle
    /\ executionThread' = "second"
    /\ second' = [second EXCEPT !.pc = "returned"]
    /\ UNCHANGED <<scripts, labels, labelCache, gotoDepthCounter, variables,
                   stopRequested, pauseRequested, isRunning, worker, idx, stack, host,
                   cur, prev, trace, budget, pool, eventQueue, marks, sleeps,
                   functions, exceptionHandlers, handled, callbacks,
                   driver, shouldExit, driverThread, threads, procs, shm, component, stopsReturned,
                   registry>>

-----------------------------------------------------------------------------
(* The leaf steps: what one call does to the store, the index and the goto    *)
(* tables, and whether it returns ("ok") or throws ("exc", err).              *)

Same == [res |-> "ok", err |-> "", variables |-> variables, idx |-> idx,
         labelCache |-> labelCache, gotoDepthCounter |-> gotoDepthCounter,
         push |-> <<>>, body |-> [kind |-> "none"], eventQueue |-> eventQueue,
         spawn |-> <<>>, functions |-> functions, isRunning |-> isRunning,
         called |-> {}, second |-> second, executionThread |-> executionThread]
Throws(err) == [Same EXCEPT !.res = "exc", !.err = err]

\* the pair executeAssign stores for an evaluated value
AssignedEntry(name, value) == [type |-> determineType(value), value |-> value]

executeAssign(step) ==
    IF ~Has(step, "variable") \/ ~Has(step, "value") THEN Throws("invalid_argument")
    ELSE LET value == evaluate(step.value, variables)
         IN  IF ~value.ok THEN Throws(value.e)
             ELSE [Same EXCEPT !.variables =
                       Put(variables, step.variable, AssignedEntry(step.variable, value.v))]

\* where a goto that found its label sets idx
GotoTarget(index) == index

executeGoto(step) ==
    IF ~Has(step, "label") THEN Throws("invalid_argument")
    ELSE LET fullLabel == step.label
         IN  IF fullLabel \in DOMAIN labelCache
             THEN LET depth == Min(gotoDepthCounter[fullLabel] + 1,
                                   MAX_GOTO_DEPTH + CounterSlack)
                  IN  [Same EXCEPT !.idx = GotoTarget(labelCache[fullLabel]),
                                   !.gotoDepthCounter = Put(gotoDepthCounter, fullLabel, depth),
                                   !.res = IF depth > MAX_GOTO_DEPTH THEN "exc" ELSE "ok",
                                   !.err = IF depth > MAX_GOTO_DEPTH THEN "runtime_error" ELSE ""]
             ELSE IF fullLabel \notin DOMAIN labels THEN Throws("runtime_error")
             ELSE [Same EXCEPT !.idx = GotoTarget(labels[fullLabel]),
                               !.labelCache = Put(labelCache, fullLabel, labels[fullLabel]),
                               !.gotoDepthCounter = Put(gotoDepthCounter, fullLabel, 1)]

executeReturn(step) ==
    IF Has(step, "value")
    THEN LET value == evaluate(step.value, variables)
         IN  IF ~value.ok THEN Throws(value.e)
             ELSE [Same EXCEPT !.variables =
                       Put(variables, "__return_value__",
                           [type |-> determineType(step.value), value |-> value.v]),
                               !.idx = SizeMax]
    ELSE [Same EXCEPT !.idx = SizeMax]

executeBreak(step) == [Same EXCEPT !.idx = SizeMax]

executeContinue(step) == [Same EXCEPT !.idx = SizeMax - 1]

executePrint(step) ==
    LET message == evaluate(step.message, variables)
    IN  IF ~message.ok THEN Throws(message.e)
        ELSE IF message.v.k # "string" THEN Throws("json.type_error")
        ELSE Same

executeThrow(step) ==
    IF ~Has(step, "exception_type") THEN Throws("invalid_argument")
    ELSE IF step.exception_type \in {"runtime_error", "invalid_argument", "out_of_range"}
    THEN Throws(step.exception_type)
    ELSE Throws("runtime_error")

\* the calling thread waits on cv_ (the action that takes the step is not
\* enabled)
Blocked == [Same EXCEPT !.res = "blocked"]

\* a wait_event that is content with its topic anywhere in the queue
\* (a variant C18 must tell apart)
WaitEventReadyAnywhere(event) == \E i \in 1..Len(eventQueue) : eventQueue[i] = event

\* the predicate wait_event waits for
WaitEventReady(event) == eventQueue # <<>> /\ Head(eventQueue) = event

executeWaitEvent(step) ==
    IF ~Has(step, "event") THEN Throws("nested")
    ELSE IF WaitEventReady(step.event)
    THEN [Same EXCEPT !.eventQueue = Tail(eventQueue)]
    ELSE Blocked

executeBroadcastEvent(step) ==
    IF ~Has(step, "event_name") THEN Throws("invalid_argument")
    ELSE LET channel == IF Has(step, "channel") THEN step.channel ELSE "default"
         IN  [Same EXCEPT !.eventQueue =
                  Append(eventQueue, EventKey(step.event_name, channel))]

\* the predicate listen_event waits for
ListenReady(step, channel) ==
    /\ eventQueue # <<>>
    /\ \E i \in 1..Len(step.event_names) :
           Head(eventQueue) = EventKey(step.event_names[i], channel)

(* The compound steps: the frames a call pushes before its first nested step *)

BodyFrame(kind, body) == [kind |-> kind, body |-> body, pos |-> 1, it |-> 0, n |-> 0]
Enter(push, body) == [Same EXCEPT !.res = "enter", !.push = push, !.body = body]

executeCondition(step) ==
    IF ~Has(step, "condition") THEN Throws("invalid_argument")
    ELSE LET conditionResult == evaluate(step.condition, variables)
         IN  IF ~conditionResult.ok THEN Throws(conditionResult.e)
             ELSE IF conditionResult.v.k # "boolean" THEN Throws("invalid_argument")
             ELSE IF conditionResult.v.b THEN Enter(<<>>, BodyFrame("cond", <<step.true>>))
             ELSE IF Has(step, "false") THEN Enter(<<>>, BodyFrame("cond", <<step.false>>))
             ELSE Same

\* the bound of executeLoop's outer for: i < iterations
LoopMore(i, iterations) == i < iterations

executeLoop(step) ==
    IF ~Has(step, "loop_iterations") THEN Throws("invalid_argument")
    ELSE LET iterations == evaluate(step.loop_iterations, variables)
         IN  IF ~iterations.ok THEN Throws(iterations.e)
             ELSE IF ~IsArithmetic(iterations.v) THEN Throws("json.type_error")
             ELSE IF LoopMore(0, GetInt(iterations.v)) /\ ~stopRequested
             THEN Enter(<<>>, [BodyFrame("loop", step.steps) EXCEPT !.n = GetInt(iterations.v)])
             ELSE Same

executeWhileLoop(step) == Enter(<<[kind |-> "while", step |-> step]>>, [kind |-> "none"])

executeTryCatch(step) ==
    IF ~Has(step, "try") THEN Throws("invalid_argument")
    ELSE Enter(<<[kind |-> "try", step |-> step, phase |-> "try", occurred |-> FALSE]>>,
               BodyFrame("steps", step.try))

\* executeRetry up to its first attempt (the model's retry steps have no
\* on_retry steps)
RetryDelay(step) ==
    IF Has(step, "delay") /\ step.delay.k = "number" THEN step.delay.n ELSE 0
RetryBackoff(step) ==
    Has(step, "exponential_backoff") /\ step.exponential_backoff.k = "boolean"
        /\ step.exponential_backoff.b
RetryOnErrorType(step) == IF Has(step, "error_type") THEN step.error_type ELSE ""
\* the attempt loop: for (int i = 0; i <= retries; ++i)
RetryMore(i, retries) == i <= retries
\* a retry that gives up one attempt later (a variant C15 must tell apart)
RetryExhaustedLate(i, retries) == i = retries + 1

\* if (i == retries) throw
RetryExhausted(i, retries) == i = retries

executeRetry(step) ==
    IF ~Has(step, "retries") \/ step.retries.k # "number" THEN Throws("invalid_argument")
    ELSE IF RetryMore(0, step.retries.n)
    THEN Enter(<<[kind |-> "retry", step |-> step, i |-> 0, delay |-> RetryDelay(step)]>>,
               BodyFrame("steps", step.steps))
    ELSE Same

\* captureClosureVariables: the value of every variable of the store
captureClosureVariables == [n \in DOMAIN variables |-> variables[n].value]

\* a variant that restores nothing (C35 must tell it apart)
restoreClosureVariablesNone(closure, store) == store

\* restoreClosureVariables: variables_[key] = {determineType(value), value} for
\* each key of the closure; what the store holds besides stays
restoreClosureVariables(closure, store) ==
    [n \in DOMAIN store \cup DOMAIN closure |->
        IF n \in DOMAIN closure THEN AssignedEntry(n, closure[n]) ELSE store[n]]

\* executeCall's params: step["params"] or {}, each value evaluated; the
\* first evaluation that throws ends the call
EvaluatedParams(evaluated) ==
    IF \E k \in DOMAIN evaluated : ~evaluated[k].ok
    THEN [ok |-> FALSE, e |-> evaluated[CHOOSE k \in DOMAIN evaluated : ~evaluated[k].ok].e,
          v |-> Empty]
    ELSE [ok |-> TRUE, e |-> "", v |-> [k \in DOMAIN evaluated |-> evaluated[k].v]]
CallParams(step) ==
    EvaluatedParams([k \in DOMAIN (IF Has(step, "params") THEN step.params ELSE Empty) |->
                        evaluate(step.params[k], variables)])

ParamNames(def) == IF Has(def, "params") THEN def.params ELSE <<>>
DefaultValues(def) == IF Has(def, "default_values") THEN def.default_values ELSE Empty

\* the lambda's mergedParams: the default values, and over them what is
\* passed for a declared parameter
MergedParams(def, passedParams) ==
    LET declared == {ParamNames(def)[i] : i \in DOMAIN ParamNames(def)}
        passed == declared \cap DOMAIN passedParams
    IN  [n \in DOMAIN DefaultValues(def) \cup passed |->
            IF n \in passed THEN passedParams[n] ELSE DefaultValues(def)[n]]

\* the lambda executeFunctionDef stores, up to its executeSteps: size_t idx = 0,
\* the closure restored, each merged parameter stored as a variable, then the
\* steps; the frame keeps the caller's idx and the call step for the return
CallDefined(step, f, passedParams) ==
    LET merged == MergedParams(f.def, passedParams)
        restored == restoreClosureVariables(f.closure, variables)
        bound == [n \in DOMAIN restored \cup DOMAIN merged |->
                     IF n \in DOMAIN merged THEN AssignedEntry(n, merged[n])
                     ELSE restored[n]]
    IN  [Enter(<<[kind |-> "call", step |-> step, phase |-> "body", idx |-> idx]>>,
               BodyFrame("steps", f.def.steps))
            EXCEPT !.variables = bound, !.idx = 0]

\* executeCall: the function is looked up under a shared lock, which is
\* released before the call; the result is stored under the unique lock
CallWith(step, params) ==
    IF ~params.ok THEN Throws(params.e)
    ELSE IF step.function \notin DOMAIN functions THEN Throws("runtime_error")
    ELSE IF functions[step.function].kind # "registered"
    THEN CallDefined(step, functions[step.function], params.v)
    ELSE LET returnValue == functions[step.function].returns
             r == [Same EXCEPT !.called = {[kind |-> "function", lock |-> "none"]}]
         IN  IF Has(step, "result") /\ step.result # ""
             THEN [r EXCEPT !.variables =
                       Put(variables, step.result, AssignedEntry(step.result, returnValue))]
             ELSE r
executeCall(step) ==
    IF ~Has(step, "function") THEN Throws("missing_argument")
    ELSE CallWith(step, CallParams(step))

\* executeFunction: the function is looked up and called under a shared lock;
\* with a result variable the thread then waits for the unique lock of the
\* mutex it holds shared, which it never gets
executeFunction(step) ==
    IF step.name \notin DOMAIN functions THEN Throws("runtime_error")
    ELSE IF functions[step.name].kind # "registered" THEN Blocked
    ELSE LET r == [Same EXCEPT !.called = {[kind |-> "function", lock |-> "shared"]}]
         IN  IF Has(step, "result") /\ step.result # ""
             THEN [Enter(<<[kind |-> "deadlock"]>>, [kind |-> "none"])
                      EXCEPT !.called = r.called]
             ELSE r

\* executeFunctionDef: functions_[name] = the closure over the definition
Defined(funcDef) ==
    [kind |-> "defined", def |-> funcDef, closure |-> captureClosureVariables]

executeFunctionDef(step) ==
    IF ~Has(step, "name") THEN Throws("invalid_argument")
    ELSE [Same EXCEPT !.functions = Put(functions, step.name, Defined(step))]

\* executeScope's first loop: oldVars keeps the entry of each scope variable
\* that exists, then setVariable(name, value, determineType(value)), which
\* throws when the variable exists with another type
RECURSIVE ScopeSetVariables(_, _, _, _)
ScopeSetVariables(vs, i, store, oldVars) ==
    IF i > Len(vs) THEN [ok |-> TRUE, variables |-> store, oldVars |-> oldVars]
    ELSE LET name == vs[i].name
             type == determineType(vs[i].value)
             old == IF name \in DOMAIN store THEN Put(oldVars, name, store[name])
                    ELSE oldVars
         IN  IF name \in DOMAIN store /\ store[name].type # type
             THEN [ok |-> FALSE, variables |-> store, oldVars |-> old]
             ELSE ScopeSetVariables(vs, i + 1,
                                    Put(store, name, [type |-> type, value |-> vs[i].value]),
                                    old)

\* executeScope's second loop: oldFunctions keeps each function a definition
\* of the scope overrides, then executeFunctionDef
RECURSIVE ScopeDefineFunctions(_, _, _, _)
ScopeDefineFunctions(fs, i, table, oldFunctions) ==
    IF i > Len(fs) THEN [functions |-> table, oldFunctions |-> oldFunctions]
    ELSE IF ~Has(fs[i], "name") THEN ScopeDefineFunctions(fs, i + 1, table, oldFunctions)
    ELSE ScopeDefineFunctions(fs, i + 1, Put(table, fs[i].name, Defined(fs[i])),
                              IF fs[i].name \in DOMAIN table
                              THEN Put(oldFunctions, fs[i].name, table[fs[i].name])
                              ELSE oldFunctions)

ScopeVariables(step) == IF Has(step, "variables") THEN step.variables ELSE <<>>
ScopeFunctions(step) == IF Has(step, "functions") THEN step.functions ELSE <<>>
ScopeSteps(step) == IF Has(step, "steps") THEN step.steps ELSE <<>>

\* executeScope up to the first of its steps. setVariable waits on cv_ until
\* !isRunning_. The frame keeps oldVars and oldFunctions, and (history) the
\* store and the function table the scope found.
executeScope(step) ==
    IF ScopeVariables(step) # <<>> /\ isRunning THEN Blocked
    ELSE LET set == ScopeSetVariables(ScopeVariables(step), 1, variables, Empty)
             def == ScopeDefineFunctions(ScopeFunctions(step), 1, functions, Empty)
         IN  IF ~set.ok THEN [Throws("runtime_error") EXCEPT !.variables = set.variables]
             ELSE [Enter(<<[kind |-> "scope", step |-> step, phase |-> "steps",
                            oldVars |-> set.oldVars, oldFunctions |-> def.oldFunctions,
                            was |-> [variables |-> variables, functions |-> functions]]>>,
                         BodyFrame("steps", ScopeSteps(step)))
                     EXCEPT !.variables = set.variables, !.functions = def.functions]

\* executeScope's last loops: the overridden functions and the old variables
\* are put back, the variables only the scope had are erased
ScopeRestoredFunctions(f) ==
    [n \in DOMAIN functions \cup DOMAIN f.oldFunctions |->
        IF n \in DOMAIN f.oldFunctions THEN f.oldFunctions[n] ELSE functions[n]]
ScopeRestoredVariables(f) ==
    LET names == {ScopeVariables(f.step)[i].name : i \in 1..Len(ScopeVariables(f.step))}
    IN  [n \in (DOMAIN variables \cup DOMAIN f.oldVars) \ (names \ DOMAIN f.oldVars) |->
            IF n \in DOMAIN f.oldVars THEN f.oldVars[n] ELSE variables[n]]

\* executeParallel: one pool task per child step, then future.get() in order
PoolTask(step) == [step |-> step, pc |-> "ready", stack |-> <<>>, res |-> "", err |-> ""]

executeParallel(step) ==
    IF ~Has(step, "steps") THEN Throws("nested")
    ELSE IF step.steps = <<>> THEN Same
    ELSE [Enter(<<[kind |-> "parallel", first |-> Len(pool) + 1,
                   n |-> Len(step.steps), pos |-> 1]>>, [kind |-> "none"])
             EXCEPT !.spawn = [i \in 1..Len(step.steps) |-> PoolTask(step.steps[i])]]

\* executeListenEvent up to the first of its steps; a wait with a timeout that
\* finds no matching head returns (the timeout has passed), one without blocks
executeListenEvent(step) ==
    IF ~Has(step, "event_names") THEN Throws("invalid_argument")
    ELSE
    LET channel == IF Has(step, "channel") THEN step.channel ELSE "default"
        timeout == IF Has(step, "timeout") /\ step.timeout.k = "number"
                   THEN step.timeout.n ELSE -1
        eventKey == Head(eventQueue).name
        filter == evaluate(step.filter, variables)
        Steps(body) == [Enter(<<[kind |-> "listen", step |-> step]>>,
                              BodyFrame("steps", body))
                           EXCEPT !.called = {[kind |-> "steps", lock |-> "unique"]}]
        Pops == [Same EXCEPT !.eventQueue = Tail(eventQueue)]
    IN  IF ~ListenReady(step, channel)
        THEN IF timeout < 0 THEN Blocked ELSE Same
        ELSE IF Has(step, "filter") /\ ~filter.ok THEN Throws(filter.e)
        ELSE IF Has(step, "filter") /\ filter.v.k # "boolean" THEN Throws("json.type_error")
        ELSE IF Has(step, "filter") /\ ~filter.v.b THEN Pops
        ELSE IF Has(step, "event_steps")
        THEN IF eventKey \in DOMAIN step.event_steps
             THEN Steps(step.event_steps[eventKey])
             ELSE IF "default" \in DOMAIN step.event_steps
             THEN Steps(step.event_steps["default"])
             ELSE Pops
        ELSE IF Has(step, "steps") THEN Steps(step.steps)
        ELSE Pops

\* executeStep's dispatch on step["type"]
\* executeNestedScript on the worker, once execute has stored the worker in
\* executionThread_: execute(scriptName) sets isRunning_ and joins
\* executionThread_, which is the calling thread itself, and join throws
\* std::system_error (resource_deadlock_would_occur); no thread is started.
executeNestedScript(step) ==
    IF step.script \in DOMAIN scripts
    THEN [Throws("system_error") EXCEPT !.isRunning = TRUE]
    ELSE Throws("runtime_error")

\* executeNestedScript on the worker while the host has not yet stored the
\* worker in executionThread_ (the host's move assignment races with the
\* worker's read): executionThread_ is not joinable, execute starts the named
\* script on a thread of its own, stores it and returns at once.
NestedUnjoined(step) ==
    [Same EXCEPT !.isRunning = TRUE,
                 !.second = [second EXCEPT !.thread = "running",
                                           !.name = step.script, !.i = 0],
                 !.executionThread = "second"]

\* what the worker's executionThread_.joinable() can read in a nested_script
NestedOutcomes(step, held) ==
    IF /\ step.type = "nested_script"
       /\ step.script \in DOMAIN scripts
       /\ second.thread \in {"none", "done"}
       /\ ~held
    THEN {"joined", "unjoined"}
    ELSE {"joined"}

Dispatch(step) ==
    CASE step.type = "assign" -> executeAssign(step)
      [] step.type = "goto" -> executeGoto(step)
      [] step.type = "return" -> executeReturn(step)
      [] step.type = "break" -> executeBreak(step)
      [] step.type = "continue" -> executeContinue(step)
      [] step.type = "print" -> executePrint(step)
      [] step.type = "throw" -> executeThrow(step)
      [] step.type = "condition" -> executeCondition(step)
      [] step.type = "loop" -> executeLoop(step)
      [] step.type = "while" -> executeWhileLoop(step)
      [] step.type = "try" -> executeTryCatch(step)
      [] step.type = "retry" -> executeRetry(step)
      [] step.type = "wait_event" -> executeWaitEvent(step)
      [] step.type = "broadcast_event" -> executeBroadcastEvent(step)
      [] step.type = "parallel" -> executeParallel(step)
      [] step.type = "call" -> executeCall(step)
      [] step.type = "scope" -> executeScope(step)
      [] step.type = "function" -> executeFunction(step)
      [] step.type = "listen_event" -> executeListenEvent(step)
      [] step.type = "nested_script" -> executeNestedScript(step)
      [] step.type = "function_def" -> executeFunctionDef(step)
      [] OTHER -> Throws("runtime_error")

\* executeStep's catch block: handleException(script["name"], e) is called with
\* script an array, so script["name"] itself throws a json type_error, which
\* leaves executeStep in place of the caught exception.
ExecuteStepCatch(err) == "json.type_error"

-----------------------------------------------------------------------------
(* Control: what the callers on the stack do with the result of a nested call. *)
(* A body frame (steps, cond, loop) receives the result of executeStep: "ok"   *)
(* (true), "false" or "exc"; a while or try frame receives the result of       *)
(* executeSteps: "void" or "exc"; the empty stack is the worker's own loop.    *)

Run(stk) == [stack |-> stk, out |-> "run", e |-> "", slept |-> <<>>, pops |-> 0]

\* the first catch entry whose type is "all" or the thrown type's name, or 0
CatchIndex(step, e) ==
    IF ~Has(step, "catch") THEN 0
    ELSE LET hits == {i \in 1..Len(step.catch) :
                         LET catchType == IF Has(step.catch[i], "type")
                                          THEN step.catch[i].type ELSE "all"
                         IN  catchType = "all" \/ catchType = e}
         IN  IF hits = {} THEN 0 ELSE CHOOSE i \in hits : \A j \in hits : i <= j

\* Exceptions made by std::throw_with_nested; the error_type of a retry step
\* is looked at for these only (std::rethrow_if_nested returns for all others).
IsNested(e) == e = "nested"

\* executeRetry's catch block: whether the error is rethrown without retrying
RetryRefuses(step, e) ==
    /\ RetryOnErrorType(step) # ""
    /\ IsNested(e)
    /\ e # RetryOnErrorType(step)

RECURSIVE Deliver(_, _, _, _)
RECURSIVE EnterBody(_, _, _)

EnterBody(stk, frame, stop) ==
    IF frame.body = <<>>
    THEN Deliver(stk, IF frame.kind = "steps" THEN "void" ELSE "ok", "", stop)
    ELSE Run(Append(stk, frame))

Deliver(stk, res, e, stop) ==
    IF stk = <<>> THEN [stack |-> <<>>, out |-> res, e |-> e, slept |-> <<>>, pops |-> 0]
    ELSE
    LET f == Top(stk)
        rest == Pop(stk)
        Propagate == Deliver(rest, "exc", e, stop)
    IN
    CASE f.kind = "steps" ->
           \* executeSteps: for each step, break when executeStep returns false
           IF res = "exc" THEN Propagate
           ELSE IF res = "ok" /\ f.pos < Len(f.body)
           THEN Run(Append(rest, [f EXCEPT !.pos = @ + 1]))
           ELSE Deliver(rest, "void", "", stop)
      [] f.kind = "cond" ->
           \* executeCondition ignores what executeStep returns
           IF res = "exc" THEN Propagate ELSE Deliver(rest, "ok", "", stop)
      [] f.kind = "loop" ->
           \* executeLoop: return false when a nested step returns false (the
           \* dispatcher drops that value and executeStep returns true)
           IF res = "exc" THEN Propagate
           ELSE IF res = "false" THEN Deliver(rest, "ok", "", stop)
           ELSE IF f.pos < Len(f.body) THEN Run(Append(rest, [f EXCEPT !.pos = @ + 1]))
           ELSE IF LoopMore(f.it + 1, f.n) /\ ~stop
           THEN Run(Append(rest, [f EXCEPT !.it = @ + 1, !.pos = 1]))
           ELSE Deliver(rest, "ok", "", stop)
      [] f.kind = "while" ->
           \* executeWhileLoop: back to the condition
           IF res = "exc" THEN Propagate ELSE Run(stk)
      [] f.kind = "retry" ->
           \* executeRetry: return on success; on failure rethrow, or sleep and
           \* run the steps again
           IF res # "exc" THEN Deliver(rest, "ok", "", stop)
           ELSE IF RetryRefuses(f.step, e) \/ RetryExhausted(f.i, f.step.retries.n)
           THEN Propagate
           ELSE LET again == [f EXCEPT !.i = @ + 1,
                                       !.delay = IF RetryBackoff(f.step) THEN 2 * @ ELSE @]
                    d == IF RetryMore(f.i + 1, f.step.retries.n)
                         THEN EnterBody(Append(rest, again),
                                        BodyFrame("steps", f.step.steps), stop)
                         ELSE Deliver(rest, "ok", "", stop)
                IN  [d EXCEPT !.slept = (IF f.delay > 0 THEN <<f.delay>> ELSE <<>>) \o @]
      [] f.kind = "scope" ->
           \* executeScope: an exception of the steps runs on_error, or leaves
           \* the function when there is none; then cleanup; then the restoring
           \* loops (the frame in phase "restore")
           LET Restore == Run(Append(rest, [f EXCEPT !.phase = "restore"]))
               Cleanup ==
                   IF Has(f.step, "cleanup")
                   THEN EnterBody(Append(rest, [f EXCEPT !.phase = "cleanup"]),
                                  BodyFrame("steps", f.step.cleanup), stop)
                   ELSE Restore
           IN
           CASE f.phase = "steps" ->
                  IF res # "exc" THEN Cleanup
                  ELSE IF Has(f.step, "on_error")
                  THEN EnterBody(Append(rest, [f EXCEPT !.phase = "on_error"]),
                                 BodyFrame("steps", f.step.on_error), stop)
                  ELSE Propagate
             [] f.phase = "on_error" -> IF res = "exc" THEN Propagate ELSE Cleanup
             [] OTHER -> IF res = "exc" THEN Propagate ELSE Restore
      [] f.kind = "call" ->
           \* the lambda of executeFunctionDef after executeSteps: the script
           \* passed down is the function_def step, whose "name" is a string,
           \* so executeStep's catch block reaches handleException, which
           \* returns, and the step that threw returns false: the steps end
           \* and the lambda goes on to the return value
           Run(Append(rest, [f EXCEPT !.phase = "return"]))
      [] f.kind = "listen" ->
           \* executeListenEvent after its steps: eventQueue_.pop(), skipped
           \* when the steps throw
           IF res = "exc" THEN Propagate
           ELSE [Deliver(rest, "ok", "", stop) EXCEPT !.pops = @ + 1]
      [] f.kind = "try" ->
           LET AfterFinally(occurred) ==
                   IF ~occurred /\ Has(f.step, "else")
                   THEN EnterBody(Append(rest, [f EXCEPT !.phase = "else"]),
                                  BodyFrame("steps", f.step.else), stop)
                   ELSE Deliver(rest, "ok", "", stop)
               AfterCatch(occurred) ==
                   IF Has(f.step, "finally")
                   THEN EnterBody(Append(rest, [f EXCEPT !.phase = "finally",
                                                         !.occurred = occurred]),
                                  BodyFrame("steps", f.step.finally), stop)
                   ELSE AfterFinally(occurred)
           IN
           CASE f.phase = "try" ->
                  IF res = "exc"
                  THEN LET c == CatchIndex(f.step, e)
                       IN  IF c = 0 THEN AfterCatch(TRUE)
                           ELSE EnterBody(Append(rest, [f EXCEPT !.phase = "catch",
                                                                 !.occurred = TRUE]),
                                          BodyFrame("steps", f.step.catch[c].steps), stop)
                  ELSE AfterCatch(FALSE)
             [] f.phase = "catch" -> IF res = "exc" THEN Propagate ELSE AfterCatch(TRUE)
             [] f.phase = "finally" ->
                  IF res = "exc" THEN Propagate ELSE AfterFinally(f.occurred)
             [] OTHER -> IF res = "exc" THEN Propagate ELSE Deliver(rest, "ok", "", stop)

-----------------------------------------------------------------------------
(* The lock mtx_. executeListenEvent keeps its std::unique_lock while its     *)
(* steps run; thread 0 is the execution worker, thread c > 0 the pool thread  *)
(* that runs pool task c.                                                     *)

HoldsMtx(stk) == \E i \in DOMAIN stk : stk[i].kind = "listen"
ThreadStack(t) == IF t = 0 THEN stack ELSE pool[t].stack
OthersHoldMtx(t) ==
    \E u \in (0..Len(pool)) \ {t} : HoldsMtx(ThreadStack(u))

\* the steps that begin with std::unique_lock lock(mtx_)
LocksMtx(step) ==
    step.type \in {"wait_event", "broadcast_event", "listen_event", "call", "function",
                   "nested_script"}

\* an assign that gives up one failed attempt later (a variant C22 must tell
\* apart)
AssignGivesUpLate(failed) == failed = 4

\* executeAssign's for (int attempt = 0; attempt < 3; ++attempt): after the
\* third failed try_lock_for the loop ends and "Failed to acquire lock" is thrown
AssignGivesUp(failed) == failed = 3

\* executeAssign when its first try_lock_for fails: the value has been
\* evaluated (once, before the loop); the frame counts the failed attempts
AssignFirstFails(step) ==
    LET r == executeAssign(step)
    IN  IF r.res = "exc" THEN r
        ELSE Enter(<<[kind |-> "assign", step |-> step,
                      entry |-> r.variables[step.variable], failed |-> 1]>>,
                   [kind |-> "none"])

\* One step taken by thread t. While another thread holds mtx_ a locking step
\* waits, and a try_lock_for of an assign fails (that the lock may come free
\* within the 50 ms is the behaviour in which the attempt is made later). A
\* thread that holds mtx_ itself fails every try_lock_for of an assign;
\* locking mtx_ again blocks.
StepAs(t, step) ==
    LET own == HoldsMtx(ThreadStack(t))
        other == OthersHoldMtx(t)
    IN  IF step.type = "assign" /\ (own \/ other) THEN AssignFirstFails(step)
        \* execute called by a pool task joins the worker, which waits for the task
        ELSE IF step.type = "nested_script" /\ t # 0 /\ step.script \in DOMAIN scripts
        THEN Blocked
        ELSE IF LocksMtx(step) /\ (own \/ other) THEN Blocked
        ELSE Dispatch(step)

\* An exception caught by executeStep inside the steps of a listen_event: the
\* script passed down is the listen step, an object without "name", and
\* script["name"] on it has undefined behaviour: the build either throws from
\* the conversion of what it reads, or ends the process.
UBOutcomes(r, stk) ==
    IF r.res = "exc" /\ HoldsMtx(stk) THEN {"throw", "abort"} ELSE {"throw"}

\* eventQueue_.pop() of the listen_event calls that returned
Popped(q, d) == IF d.pops > 0 THEN Tail(q) ELSE q

-----------------------------------------------------------------------------
(* The execution worker (the lambda of execute) *)

Script == scripts[worker.script]

\* the worker's loop condition: i < script.size() && !stopRequested_
LoopCondition == idx < Len(Script) /\ ~stopRequested

\* the step the next executeStep call is made on
CurStep == IF stack = <<>> THEN Script[idx + 1] ELSE Top(stack).body[Top(stack).pos]

Began(step, r) ==
    [seq |-> 1 - cur.seq, lvl |-> Len(stack), top |-> idx, type |-> step.type,
     label |-> IF Has(step, "label") THEN step.label ELSE "", res |-> r.res,
     err |-> r.err]

\* what the worker's loop does with the result of executeStep(script[i], i, script)
Settle(d, newIdx) ==
    /\ stack' = d.stack
    /\ sleeps' = sleeps \o d.slept
    /\ CASE d.out = "run" -> idx' = newIdx /\ worker' = worker
         [] d.out = "ok" -> idx' = Inc(newIdx) /\ worker' = worker
         [] d.out = "false" -> idx' = newIdx /\ worker' = [worker EXCEPT !.pc = "exit"]
         [] OTHER -> idx' = newIdx /\ worker' = [worker EXCEPT !.pc = "exit", !.exc = d.e]

\* one call of executeStep that passes the stop check and runs the step
WorkerExecuteStep ==
    /\ worker.pc = "running"
    /\ IF stack = <<>> THEN LoopCondition ELSE Top(stack).kind \in {"steps", "cond", "loop"}
    /\ ~stopRequested
    /\ \E how \in NestedOutcomes(CurStep, HoldsMtx(stack) \/ OthersHoldMtx(0)) :
       LET step == CurStep
           r == IF how = "unjoined" THEN NestedUnjoined(step) ELSE StepAs(0, step)
           d == IF r.res = "enter"
                THEN IF r.body.kind = "none" THEN Run(stack \o r.push)
                     ELSE EnterBody(stack \o r.push, r.body, stopRequested)
                ELSE Deliver(stack, r.res,
                             IF r.res = "exc" THEN ExecuteStepCatch(r.err) ELSE "",
                             stopRequested)
       IN  /\ r.res # "blocked"
           /\ marks' = IF Has(step, "label") THEN Bump(marks, step.label) ELSE marks
           /\ functions' = r.functions
           /\ isRunning' = r.isRunning
           /\ callbacks' = callbacks \cup r.called
           /\ second' = r.second
           /\ executionThread' = r.executionThread
           /\ prev' = cur
           /\ cur' = Began(step, r)
           /\ \E ub \in UBOutcomes(r, stack) :
                  IF ub = "abort"
                  THEN /\ worker' = [worker EXCEPT !.pc = "aborted"]
                       /\ UNCHANGED <<variables, labelCache, gotoDepthCounter, stack,
                                      sleeps, idx, eventQueue, pool, trace,
                                      driver, shouldExit, driverThread, threads, procs, shm, component, stopsReturned,
                                      registry>>
                  ELSE /\ variables' = r.variables
                       /\ labelCache' = r.labelCache
                       /\ gotoDepthCounter' = r.gotoDepthCounter
                       /\ Settle(d, r.idx)
                       /\ eventQueue' = Popped(r.eventQueue, d)
                       /\ pool' = pool \o r.spawn
                       /\ trace' = IF stack # <<>> THEN trace
                                   ELSE IF Len(trace) < MaxTrace THEN Append(trace, idx)
                                   ELSE Append(Tail(trace), idx)
    /\ UNCHANGED <<scripts, labels, stopRequested, pauseRequested, host, budget,
                   exceptionHandlers, handled,
                   driver, shouldExit, driverThread, threads, procs, shm, component, stopsReturned,
                   registry>>

\* one call of executeStep inside a body that finds the stop flag set and
\* returns false at once
WorkerStepStopped ==
    /\ worker.pc = "running"
    /\ stack # <<>>
    /\ Top(stack).kind \in {"steps", "cond", "loop"}
    /\ stopRequested
    /\ LET d == Deliver(stack, "false", "", stopRequested)
       IN  Settle(d, idx) /\ eventQueue' = Popped(eventQueue, d)
    /\ UNCHANGED <<scripts, labels, labelCache, gotoDepthCounter, variables,
                   stopRequested, pauseRequested, isRunning, host, cur, prev, trace,
                   budget,
                   executionThread, second, pool, marks,
                   functions, exceptionHandlers, handled, callbacks,
                   driver, shouldExit, driverThread, threads, procs, shm, component, stopsReturned,
                   registry>>

\* executeWhileLoop: while (evaluate(step["condition"]).get<bool>()) executeSteps(...)
WorkerWhileCondition ==
    /\ worker.pc = "running"
    /\ stack # <<>>
    /\ Top(stack).kind = "while"
    /\ LET step == Top(stack).step
           c == evaluate(step.condition, variables)
           d == IF ~c.ok THEN Deliver(Pop(stack), "exc", ExecuteStepCatch(c.e), stopRequested)
                ELSE IF c.v.k # "boolean"
                THEN Deliver(Pop(stack), "exc", ExecuteStepCatch("json.type_error"),
                             stopRequested)
                ELSE IF c.v.b THEN EnterBody(stack, BodyFrame("steps", step.steps),
                                             stopRequested)
                ELSE Deliver(Pop(stack), "ok", "", stopRequested)
       IN  Settle(d, idx) /\ eventQueue' = Popped(eventQueue, d)
    /\ UNCHANGED <<scripts, labels, labelCache, gotoDepthCounter, variables,
                   stopRequested, pauseRequested, isRunning, host, cur, prev, trace,
                   budget,
                   executionThread, second, pool, marks,
                   functions, exceptionHandlers, handled, callbacks,
                   driver, shouldExit, driverThread, threads, procs, shm, component, stopsReturned,
                   registry>>

\* the worker's loop condition is false: leave the loop
WorkerLoopEnd ==
    /\ worker.pc = "running"
    /\ stack = <<>>
    /\ ~LoopCondition
    /\ worker' = [worker EXCEPT !.pc = "exit"]
    /\ UNCHANGED <<scripts, labels, labelCache, gotoDepthCounter, variables,
                   stopRequested, pauseRequested, isRunning, idx, stack, host, cur,
                   prev, trace, budget,
                   executionThread, second, pool, eventQueue, marks, sleeps,
                   functions, exceptionHandlers, handled, callbacks,
                   driver, shouldExit, driverThread, threads, procs, shm, component, stopsReturned,
                   registry>>

\* handleException(scriptName, e) of the worker's epilogue invokes the handler
\* registered under the script's name
HandlerInvoked == worker.exc # "" /\ worker.script \in exceptionHandlers

\* after the loop: isRunning_ = false, notify_all, then for a caught exception
\* handleException: under a shared lock the handler registered for the script
\* is invoked with it; without one it is logged and std::rethrow_if_nested
\* throws the nested exception out of the thread function (std::terminate);
\* the thread ends
WorkerExit ==
    /\ worker.pc = "exit"
    /\ isRunning' = FALSE
    /\ worker' = [worker EXCEPT !.pc = IF worker.exc # "" /\ ~HandlerInvoked
                                          /\ IsNested(worker.exc)
                                       THEN "aborted" ELSE "done"]
    /\ stack' = <<>>
    /\ handled' = IF HandlerInvoked
                  THEN Append(handled, [name |-> worker.script, e |-> worker.exc])
                  ELSE handled
    /\ callbacks' = IF HandlerInvoked
                    THEN callbacks \cup {[kind |-> "handler", lock |-> "shared"]}
                    ELSE callbacks
    /\ UNCHANGED <<scripts, labels, labelCache, gotoDepthCounter, variables,
                   stopRequested, pauseRequested, idx, host, cur, prev, trace, budget,
                   executionThread, second, pool, eventQueue, marks, sleeps,
                   functions, exceptionHandlers,
                   driver, shouldExit, driverThread, threads, procs, shm, component, stopsReturned,
                   registry>>

\* One more try_lock_for of an assign of the worker whose earlier attempts
\* failed: the write when the lock is free, the next failure otherwise.
WorkerAssignAttempt ==
    /\ worker.pc = "running"
    /\ stack # <<>>
    /\ Top(stack).kind = "assign"
    /\ LET f == Top(stack)
           held == HoldsMtx(stack) \/ OthersHoldMtx(0)
           d == IF ~held THEN Deliver(Pop(stack), "ok", "", stopRequested)
                ELSE Deliver(Pop(stack), "exc", ExecuteStepCatch("runtime_error"),
                             stopRequested)
       IN  IF held /\ ~AssignGivesUp(f.failed + 1)
           THEN /\ stack' = Append(Pop(stack), [f EXCEPT !.failed = @ + 1])
                /\ UNCHANGED <<variables, worker, idx, sleeps, eventQueue,
                               driver, shouldExit, driverThread, threads, procs, shm, component, stopsReturned,
                               registry>>
           ELSE \E ub \in UBOutcomes([res |-> IF held THEN "exc" ELSE "ok"], stack) :
                   IF ub = "abort"
                   THEN /\ worker' = [worker EXCEPT !.pc = "aborted"]
                        /\ UNCHANGED <<variables, stack, idx, sleeps, eventQueue,
                                       driver, shouldExit, driverThread, threads, procs, shm, component, stopsReturned,
                                       registry>>
                   ELSE /\ variables' = IF held THEN variables
                                        ELSE Put(variables, f.step.variable, f.entry)
                        /\ Settle(d, idx)
                        /\ eventQueue' = Popped(eventQueue, d)
    /\ UNCHANGED <<scripts, labels, labelCache, gotoDepthCounter, stopRequested,
                   pauseRequested, isRunning, host, cur, prev, trace, budget,
                   executionThread, second, pool, marks, functions,
                   exceptionHandlers, handled, callbacks,
                   driver, shouldExit, driverThread, threads, procs, shm, component, stopsReturned,
                   registry>>

\* the end of executeScope: the restoring loops, then the return to the caller
WorkerScopeEnd ==
    /\ worker.pc = "running"
    /\ stack # <<>>
    /\ Top(stack).kind = "scope"
    /\ LET f == Top(stack)
           d == Deliver(Pop(stack), "ok", "", stopRequested)
       IN  /\ functions' = ScopeRestoredFunctions(f)
           /\ variables' = ScopeRestoredVariables(f)
           /\ Settle(d, idx)
           /\ eventQueue' = Popped(eventQueue, d)
    /\ UNCHANGED <<scripts, labels, labelCache, gotoDepthCounter, stopRequested,
                   pauseRequested, isRunning, host, cur, prev, trace, budget,
                   executionThread, second, pool, marks, exceptionHandlers, handled,
                   callbacks,
                   driver, shouldExit, driverThread, threads, procs, shm, component, stopsReturned,
                   registry>>

\* executeParallel's loop over the futures: future.get() returns when the task
\* has ended and rethrows what the task threw; the catch block of
\* executeParallel then throws (std::throw_with_nested) and the vector of the
\* futures not yet asked is destroyed without waiting for their tasks.
WorkerFutureGet ==
    /\ worker.pc = "running"
    /\ stack # <<>>
    /\ Top(stack).kind = "parallel"
    /\ LET f == Top(stack)
           task == pool[f.first + f.pos - 1]
           d == IF task.res = "exc"
                THEN Deliver(Pop(stack), "exc", ExecuteStepCatch("nested"), stopRequested)
                ELSE IF f.pos < f.n
                THEN Run(Append(Pop(stack), [f EXCEPT !.pos = @ + 1]))
                ELSE Deliver(Pop(stack), "ok", "", stopRequested)
       IN  /\ task.pc = "done"
           /\ Settle(d, idx)
           /\ eventQueue' = Popped(eventQueue, d)
    /\ UNCHANGED <<scripts, labels, labelCache, gotoDepthCounter, variables,
                   stopRequested, pauseRequested, isRunning, host, cur, prev, trace,
                   budget, executionThread, second, pool, marks,
                   functions, exceptionHandlers, handled, callbacks,
                   driver, shouldExit, driverThread, threads, procs, shm, component, stopsReturned,
                   registry>>

\* what a pool task is after one executeStep call of its thread
TaskAfter(task, d) ==
    IF d.out = "run" THEN [task EXCEPT !.pc = "running", !.stack = d.stack]
    ELSE [task EXCEPT !.pc = "done", !.stack = <<>>,
                      !.res = IF d.out = "exc" THEN "exc" ELSE "ok", !.err = d.e]

\* One call of executeStep by the pool thread of task c: the task's lambda
\* calls executeStep(nestedStep, nestedIdx, script), and the steps nested in
\* that step follow (the tasks checked hold no goto, while or parallel step).
ChildExecuteStep(c) ==
    /\ worker.pc # "aborted"
    /\ pool[c].pc # "done"
    /\ pool[c].pc = "running" => Top(pool[c].stack).kind \in {"steps", "cond", "loop"}
    /\ LET task == pool[c]
           step == IF task.pc = "ready" THEN task.step
                   ELSE Top(task.stack).body[Top(task.stack).pos]
           r == StepAs(c, step)
           d == IF stopRequested THEN Deliver(task.stack, "false", "", TRUE)
                ELSE IF r.res = "enter"
                THEN IF r.body.kind = "none" THEN Run(task.stack \o r.push)
                     ELSE EnterBody(task.stack \o r.push, r.body, stopRequested)
                ELSE Deliver(task.stack, r.res,
                             IF r.res = "exc" THEN ExecuteStepCatch(r.err) ELSE "",
                             stopRequested)
       IN  IF stopRequested
           THEN /\ pool' = [pool EXCEPT ![c] = TaskAfter(task, d)]
                /\ eventQueue' = Popped(eventQueue, d)
                /\ UNCHANGED <<variables, labelCache, gotoDepthCounter, marks, sleeps,
                               worker, functions, isRunning, callbacks,
                               driver, shouldExit, driverThread, threads, procs, shm, component, stopsReturned,
                               registry>>
           ELSE /\ r.res # "blocked"
                /\ step.type \notin {"goto", "while", "parallel", "scope"}
                /\ marks' = IF Has(step, "label") THEN Bump(marks, step.label) ELSE marks
                /\ functions' = r.functions
                /\ isRunning' = r.isRunning
                /\ callbacks' = callbacks \cup r.called
                /\ \E ub \in UBOutcomes(r, task.stack) :
                       IF ub = "abort"
                       THEN /\ worker' = [worker EXCEPT !.pc = "aborted"]
                            /\ UNCHANGED <<variables, labelCache, gotoDepthCounter,
                                           eventQueue, pool, sleeps,
                                           driver, shouldExit, driverThread, threads, procs, shm, component, stopsReturned,
                                           registry>>
                       ELSE /\ variables' = r.variables
                            /\ labelCache' = r.labelCache
                            /\ gotoDepthCounter' = r.gotoDepthCounter
                            /\ pool' = [pool EXCEPT ![c] = TaskAfter(task, d)]
                            /\ eventQueue' = Popped(r.eventQueue, d)
                            /\ sleeps' = sleeps \o d.slept
                            /\ worker' = worker
    /\ UNCHANGED <<scripts, labels, stopRequested, pauseRequested, idx,
                   stack, host, cur, prev, trace, budget, executionThread, second,
                   exceptionHandlers, handled,
                   driver, shouldExit, driverThread, threads, procs, shm, component, stopsReturned,
                   registry>>

\* One more try_lock_for of an assign of pool task c whose earlier attempts
\* failed.
ChildAssignAttempt(c) ==
    /\ worker.pc # "aborted"
    /\ pool[c].pc = "running"
    /\ Top(pool[c].stack).kind = "assign"
    /\ LET task == pool[c]
           f == Top(task.stack)
           held == HoldsMtx(task.stack) \/ OthersHoldMtx(c)
           d == IF ~held THEN Deliver(Pop(task.stack), "ok", "", stopRequested)
                ELSE Deliver(Pop(task.stack), "exc", ExecuteStepCatch("runtime_error"),
                             stopRequested)
       IN  IF held /\ ~AssignGivesUp(f.failed + 1)
           THEN /\ pool' = [pool EXCEPT ![c].stack =
                                Append(Pop(task.stack), [f EXCEPT !.failed = @ + 1])]
                /\ UNCHANGED <<variables, worker, sleeps, eventQueue,
                               driver, shouldExit, driverThread, threads, procs, shm, component, stopsReturned,
                               registry>>
           ELSE \E ub \in UBOutcomes([res |-> IF held THEN "exc" ELSE "ok"], task.stack) :
                   IF ub = "abort"
                   THEN /\ worker' = [worker EXCEPT !.pc = "aborted"]
                        /\ UNCHANGED <<variables, pool, sleeps, eventQueue,
                                       driver, shouldExit, driverThread, threads, procs, shm, component, stopsReturned,
                                       registry>>
                   ELSE /\ variables' = IF held THEN variables
                                        ELSE Put(variables, f.step.variable, f.entry)
                        /\ pool' = [pool EXCEPT ![c] = TaskAfter(task, d)]
                        /\ eventQueue' = Popped(eventQueue, d)
                        /\ sleeps' = sleeps \o d.slept
                        /\ worker' = worker
    /\ UNCHANGED <<scripts, labels, labelCache, gotoDepthCounter, stopRequested,
                   pauseRequested, isRunning, idx, stack, host, cur, prev, trace,
                   budget, executionThread, second, marks, functions,
                   exceptionHandlers, handled, callbacks,
                   driver, shouldExit, driverThread, threads, procs, shm, component, stopsReturned,
                   registry>>

\* The worker of the second caller: the same lambda, on a script of leaf steps.
SecondScript == scripts[second.name]

SecondWorkerStep ==
    /\ second.thread = "running"
    /\ second.i < Len(SecondScript) /\ ~stopRequested
    /\ LET r == Dispatch(SecondScript[second.i + 1])
       IN  /\ r.res \in {"ok", "exc"}
           /\ variables' = r.variables
           /\ eventQueue' = r.eventQueue
           /\ marks' = IF Has(SecondScript[second.i + 1], "label")
                       THEN Bump(marks, SecondScript[second.i + 1].label) ELSE marks
           /\ second' = IF r.res = "ok" THEN [second EXCEPT !.i = @ + 1]
                        ELSE [second EXCEPT !.thread = "exit"]
    /\ UNCHANGED <<scripts, labels, labelCache, gotoDepthCounter, stopRequested,
                   pauseRequested, isRunning, worker, idx, stack, host, cur, prev,
                   trace, budget, executionThread, pool, sleeps,
                   functions, exceptionHandlers, handled, callbacks,
                   driver, shouldExit, driverThread, threads, procs, shm, component, stopsReturned,
                   registry>>

SecondWorkerLoopEnd ==
    /\ second.thread = "running"
    /\ ~(second.i < Len(SecondScript) /\ ~stopRequested)
    /\ second' = [second EXCEPT !.thread = "exit"]
    /\ UNCHANGED <<scripts, labels, labelCache, gotoDepthCounter, variables,
                   stopRequested, pauseRequested, isRunning, worker, idx, stack, host,
                   cur, prev, trace, budget, executionThread, pool, eventQueue, marks,
                   sleeps,
                   functions, exceptionHandlers, handled, callbacks,
                   driver, shouldExit, driverThread, threads, procs, shm, component, stopsReturned,
                   registry>>

SecondWorkerExit ==
    /\ second.thread = "exit"
    /\ isRunning' = FALSE
    /\ second' = [second EXCEPT !.thread = "done"]
    /\ UNCHANGED <<scripts, labels, labelCache, gotoDepthCounter, variables,
                   stopRequested, pauseRequested, worker, idx, stack, host, cur, prev,
                   trace, budget, executionThread, pool, eventQueue, marks, sleeps,
                   functions, exceptionHandlers, handled, callbacks,
                   driver, shouldExit, driverThread, threads, procs, shm, component, stopsReturned,
                   registry>>

WorkerNext ==
    \/ WorkerExecuteStep
    \/ WorkerStepStopped
    \/ WorkerWhileCondition
    \/ WorkerLoopEnd
    \/ WorkerExit

\* The host runs scripts of control flow, and stops, pauses and resumes them.
Next ==
    \/ \E name \in FlowNames, script \in FlowLibrary : LoadScript(name, script)
    \/ \E name \in ScriptNames : ExecuteBegin(name)
    \/ ExecuteSpawn
    \/ StopBegin
    \/ StopJoin
    \/ Pause
    \/ Resume
    \/ WorkerNext

Spec == Init /\ [][Next]_vars

\* The worker is a thread of its own and join returns once it has ended.
FairSpec == Spec /\ WF_vars(WorkerNext) /\ WF_vars(StopJoin)

\* The host sets variables between executions of scripts that assign them.
StoreNext ==
    \/ \E name \in ScriptNames, script \in StoreLibrary : LoadScript(name, script)
    \/ \E name \in SetNames, value \in SetValues, type \in SetTypes :
           SetVariable(name, value, type)
    \/ \E name \in SetNames : GetVariable(name)
    \/ \E name \in ScriptNames : ExecuteBegin(name)
    \/ ExecuteSpawn
    \/ WorkerExecuteStep
    \/ WorkerLoopEnd
    \/ WorkerExit

StoreSpec == Init /\ [][StoreNext]_vars

\* The host loads and runs scripts that jump.
GotoNext ==
    \/ \E name \in ScriptNames, script \in GotoLibrary : LoadScript(name, script)
    \/ \E name \in ScriptNames : ExecuteBegin(name)
    \/ ExecuteSpawn
    \/ WorkerExecuteStep
    \/ WorkerLoopEnd
    \/ WorkerExit

GotoSpec == Init /\ [][GotoNext]_vars

\* The host loads and runs scripts made of one try step.
TryNext ==
    \/ \E name \in FlowNames, script \in TryLibrary : LoadScript(name, script)
    \/ \E name \in FlowNames : ExecuteBegin(name)
    \/ ExecuteSpawn
    \/ WorkerExecuteStep
    \/ WorkerLoopEnd
    \/ WorkerExit

TrySpec == Init /\ [][TryNext]_vars

\* The host loads and runs scripts with a retry step.
RetryNext ==
    \/ \E name \in FlowNames, script \in RetryLibrary : LoadScript(name, script)
    \/ \E name \in FlowNames : ExecuteBegin(name)
    \/ ExecuteSpawn
    \/ WorkerExecuteStep
    \/ WorkerLoopEnd
    \/ WorkerExit

RetrySpec == Init /\ [][RetryNext]_vars

\* Two host threads call execute on one interpreter.
CallersNext ==
    \/ \E name \in FlowNames, script \in CallersLibrary : LoadScript(name, script)
    \/ \E name \in FlowNames : ExecuteBegin(name)
    \/ ExecuteSpawn
    \/ \E name \in FlowNames : SecondExecuteBegin(name)
    \/ SecondExecuteJoin
    \/ SecondExecuteSpawn
    \/ SecondExecuteAssign
    \/ WorkerExecuteStep
    \/ WorkerLoopEnd
    \/ WorkerExit
    \/ SecondWorkerStep
    \/ SecondWorkerLoopEnd
    \/ SecondWorkerExit

CallersSpec == Init /\ [][CallersNext]_vars

\* The host queues events for a worker that waits for them.
EventNext ==
    \/ \E name \in FlowNames, script \in EventLibrary : LoadScript(name, script)
    \/ \E name \in FlowNames : ExecuteBegin(name)
    \/ ExecuteSpawn
    \/ \E key \in EventKeys : QueueEvent(key)
    \/ WorkerExecuteStep
    \/ WorkerLoopEnd
    \/ WorkerExit

EventSpec == Init /\ [][EventNext]_vars

\* The host loads and runs scripts whose parallel step hands its children to
\* the pool.
FanNext ==
    \/ \E name \in FlowNames, script \in FanLibrary : LoadScript(name, script)
    \/ \E name \in FlowNames : ExecuteBegin(name)
    \/ ExecuteSpawn
    \/ WorkerExecuteStep
    \/ WorkerFutureGet
    \/ \E c \in DOMAIN pool : ChildExecuteStep(c)
    \/ \E c \in DOMAIN pool : ChildAssignAttempt(c)
    \/ WorkerLoopEnd
    \/ WorkerExit

FanSpec == Init /\ [][FanNext]_vars

\* The host registers a function and a handler and runs scripts that call back.
CallbackNext ==
    \/ \E name \in FlowNames, script \in CallbackLibrary : LoadScript(name, script)
    \/ RegisterFunction("f", JNum(7))
    \/ \E name \in FlowNames : RegisterExceptionHandler(name)
    \/ \E name \in FlowNames : ExecuteBegin(name)
    \/ ExecuteSpawn
    \/ WorkerExecuteStep
    \/ WorkerLoopEnd
    \/ WorkerExit

CallbackSpec == Init /\ [][CallbackNext]_vars

\* The host runs scripts that compare two values.
CompareNext ==
    \/ \E name \in FlowNames, script \in CompareLibrary : LoadScript(name, script)
    \/ \E name \in FlowNames : ExecuteBegin(name)
    \/ ExecuteSpawn
    \/ WorkerExecuteStep
    \/ WorkerLoopEnd
    \/ WorkerExit

CompareSpec == Init /\ [][CompareNext]_vars

\* The host runs scripts whose steps raise, with and without a handler.
EscapeNext ==
    \/ \E name \in FlowNames, script \in EscapeLibrary : LoadScript(name, script)
    \/ \E name \in FlowNames : RegisterExceptionHandler(name)
    \/ \E name \in FlowNames : ExecuteBegin(name)
    \/ ExecuteSpawn
    \/ WorkerExecuteStep
    \/ WorkerFutureGet
    \/ \E c \in DOMAIN pool : ChildExecuteStep(c)
    \/ WorkerLoopEnd
    \/ WorkerExit

EscapeSpec == Init /\ [][EscapeNext]_vars

\* The host loads scripts under two names and runs them; a nested_script step
\* names the script loaded as "B".
NestNext ==
    \/ \E name \in ScriptNames, script \in NestLibrary : LoadScript(name, script)
    \/ \E name \in ScriptNames : ExecuteBegin(name)
    \/ ExecuteSpawn
    \/ WorkerExecuteStep
    \/ WorkerLoopEnd
    \/ WorkerExit
    \/ SecondWorkerStep
    \/ SecondWorkerLoopEnd
    \/ SecondWorkerExit

NestSpec == Init /\ [][NestNext]_vars

\* The host loads and runs scripts with a scope step.
ScopeNext ==
    \/ \E name \in FlowNames, script \in ScopeLibrary : LoadScript(name, script)
    \/ \E name \in FlowNames : ExecuteBegin(name)
    \/ ExecuteSpawn
    \/ WorkerExecuteStep
    \/ WorkerScopeEnd
    \/ WorkerLoopEnd
    \/ WorkerExit

ScopeSpec == Init /\ [][ScopeNext]_vars

\* The host loads and runs scripts in which an assign meets a held lock.
LockNext ==
    \/ \E name \in FlowNames, script \in LockLibrary : LoadScript(name, script)
    \/ \E name \in FlowNames : ExecuteBegin(name)
    \/ ExecuteSpawn
    \/ WorkerExecuteStep
    \/ WorkerAssignAttempt
    \/ WorkerFutureGet
    \/ \E c \in DOMAIN pool : ChildExecuteStep(c)
    \/ \E c \in DOMAIN pool : ChildAssignAttempt(c)
    \/ WorkerLoopEnd
    \/ WorkerExit

LockSpec == Init /\ [][LockNext]_vars

GotoFairSpec == GotoSpec /\ WF_vars(WorkerExecuteStep \/ WorkerLoopEnd \/ WorkerExit)

-----------------------------------------------------------------------------
(* Properties *)

Executing == worker.pc \in {"running", "exit"}

\* the worker begins a step in this transition
StepBegins == cur'.seq # cur.seq /\ cur'.type # "none"

\* the host's call op returns in this transition
Returns(op) == host'.last.seq # host.last.seq /\ host'.last.op = op

\* step k of the script is a labelled step (not a goto naming its target)
Declares(script, k, label) ==
    /\ k < Len(script)
    /\ Has(script[k + 1], "label")
    /\ script[k + 1].label = label
    /\ script[k + 1].type # "goto"

RECURSIVE StepHasJump(_)
RECURSIVE AnyHasJump(_)
AnyHasJump(steps) == \E i \in 1..Len(steps) : StepHasJump(steps[i])
StepHasJump(step) ==
    \/ step.type \in {"goto", "return", "break", "continue"}
    \/ Has(step, "steps") /\ AnyHasJump(step.steps)
    \/ Has(step, "true") /\ StepHasJump(step.true)
    \/ Has(step, "false") /\ StepHasJump(step.false)
    \/ Has(step, "try") /\ AnyHasJump(step.try)
    \/ Has(step, "catch") /\ \E i \in 1..Len(step.catch) : AnyHasJump(step.catch[i].steps)
    \/ Has(step, "finally") /\ AnyHasJump(step.finally)
    \/ Has(step, "else") /\ AnyHasJump(step.else)
JumpFree(script) == ~AnyHasJump(script)

\* C1: an assign step never changes the kind of a variable that exists: an
\* assign of a value of another kind fails and leaves the store as it was.
C1_AssignKeepsKind ==
    [][(StepBegins /\ cur'.type = "assign") =>
          \A n \in DOMAIN variables :
              /\ n \in DOMAIN variables'
              /\ variables'[n].type = variables[n].type
              /\ (cur'.res = "exc" => variables'[n] = variables[n])]_vars

\* C2: setVariable(name, value, kind) fails and leaves the store unchanged when
\* the value's kind is not the declared kind or the variable exists with
\* another kind; otherwise the variable holds exactly (kind, value) afterwards.
C2_SetVariableChecked ==
    [][Returns("setVariable") =>
          LET c == host'.last
          IN  IF \/ determineType(c.value) # c.type
                 \/ (c.name \in DOMAIN variables /\ variables[c.name].type # c.type)
              THEN ~c.ok /\ variables' = variables
              ELSE /\ c.ok
                   /\ DOMAIN variables' = DOMAIN variables \cup {c.name}
                   /\ variables'[c.name] = [type |-> c.type, value |-> c.value]
                   /\ \A n \in DOMAIN variables \ {c.name} :
                          variables'[n] = variables[n]]_vars

\* C2 witness: a setVariable was refused because the variable exists with
\* another kind (the value matches the declared kind).
C2_Witness ==
    /\ host.last.op = "setVariable"
    /\ ~host.last.ok
    /\ determineType(host.last.value) = host.last.type
    /\ host.last.name \in DOMAIN variables
    /\ variables[host.last.name].type # host.last.type

\* C3: the step begun right after a goto L that succeeded is the top-level
\* step at the index where the executing script declares L.
C3_GotoLandsOnLabel ==
    (Executing /\ prev.type = "goto" /\ prev.res = "ok") =>
        \A k \in 0..(Len(Script) - 1) :
            Declares(Script, k, prev.label) => (cur.lvl = 0 /\ cur.top = k)

\* C4: an execution of a script whose only backward control flow is goto ends.
C4_GotoTerminates == (worker.pc = "running") ~> (worker.pc = "done")

\* C5: a goto whose label the executing script does not declare fails and leaves
\* the index where it was.
C5_UndeclaredGotoFails ==
    (Executing /\ cur.type = "goto"
       /\ \A k \in 0..(Len(Script) - 1) : ~Declares(Script, k, cur.label)) =>
        (cur.res = "exc" /\ idx = cur.top)

\* C6: in an execution of a script without goto, return, break and continue the
\* top-level steps begin in strictly increasing index order, and no step
\* begins after a top-level step threw.
C6_IndexOrder ==
    (Executing /\ JumpFree(Script)) =>
        /\ \A i, j \in 1..Len(trace) : i < j => trace[i] < trace[j]
        /\ ~(prev.lvl = 0 /\ prev.res = "exc")

\* C6 witness: a script without jumps began two top-level steps and the second
\* one threw, which ended the execution.
C6_Witness ==
    /\ worker.pc = "exit"
    /\ JumpFree(Script)
    /\ Len(trace) >= 2
    /\ cur.lvl = 0
    /\ cur.res = "exc"
    /\ worker.exc # ""

\* C7: no step begins after a return step.
C7_ReturnEndsExecution == ~(prev.type = "return" /\ prev.res = "ok" /\ cur.type # "none")

\* C8: the step begun right after a break inside a loop body is not a step of
\* that body.
C8_BreakLeavesLoop == ~(prev.type = "break" /\ prev.lvl > 0 /\ cur.lvl >= prev.lvl)

\* C9: a stop() called while a script executes returns.
C9_StopReturns == (host.pc = "stop") ~> (host.pc = "idle")

\* C10: while the pause flag is set the worker begins no step.
C10_PauseHolds == [][pauseRequested => ~StepBegins]_vars


\* C12: getVariable and setVariable never access the variable store while an
\* execution worker is running its steps: whenever one of them returns (with a
\* value or an error), no worker is inside its step loop.
C12_StoreAccessWhenIdle ==
    [][(Returns("getVariable") \/ Returns("setVariable")) => worker.pc # "running"]_vars

\* how many steps with this label have begun in the current execution
MarkCount(label) == IF label \in DOMAIN marks THEN marks[label] ELSE 0

\* the worker has left its loop after executing a script that is one try step
TryEnded == worker.pc = "exit" /\ trace # <<>> /\ Script[1].type = "try"

\* whether the try steps raise, and the type they raise (a throw step's)
TryRaises(step) == \E i \in 1..Len(step.try) : step.try[i].type = "throw"
RaisedType(step) ==
    step.try[CHOOSE i \in 1..Len(step.try) : step.try[i].type = "throw"].exception_type
CatchLabel(i) == <<"C1", "C2">>[i]

\* C13: when a try step with a finally block has ended, its finally steps have
\* run exactly once, whether or not the try steps raised, whether or not a
\* catch entry matched, and also when the selected catch steps raised.
C13_FinallyAlwaysRuns ==
    (TryEnded /\ Has(Script[1], "finally")) => MarkCount("F") = 1

\* C14: when the try steps raise, the steps of exactly the first catch entry
\* whose type is "all" or the raised error's type name have run and no other
\* entry's; the else steps have run iff the try steps did not raise; scenario
\* S4 ends with handled = true and done = true.
C14_CatchSelection ==
    TryEnded =>
        LET step == Script[1]
            first == IF TryRaises(step) THEN CatchIndex(step, RaisedType(step)) ELSE 0
            IsTrue(name) == name \in DOMAIN variables /\ variables[name].value = JBool(TRUE)
        IN  /\ \A i \in 1..Len(step.catch) :
                   MarkCount(CatchLabel(i)) = IF i = first THEN 1 ELSE 0
            /\ Has(step, "else") => MarkCount("E") = IF TryRaises(step) THEN 0 ELSE 1
            /\ Script = S4 => IsTrue("handled") /\ IsTrue("done")

\* the retry step of the script the worker has left its loop after executing
RetryStep == Script[CHOOSE i \in 1..Len(Script) : Script[i].type = "retry"]
RetryEnded ==
    /\ worker.pc = "exit"
    /\ \E i \in 1..Len(Script) : Script[i].type = "retry" /\ i - 1 \in {trace[j] : j \in 1..Len(trace)}

RECURSIVE Pow2(_)
Pow2(n) == IF n = 0 THEN 1 ELSE 2 * Pow2(n - 1)

C16_RetryErrorType ==
    (RetryEnded /\ RetryOnErrorType(RetryStep) # ""
       /\ \E i \in 1..Len(RetryStep.steps) :
              /\ RetryStep.steps[i].type = "throw"
              /\ RetryStep.steps[i].exception_type # RetryOnErrorType(RetryStep))
    => (MarkCount("R") = 1 /\ worker.exc # "")

\* C11: no two execution workers of the interpreter are inside their step
\* loops at the same time, also when execute is called concurrently from two
\* host threads.
C11_OneWorkerAtATime == ~(worker.pc = "running" /\ second.thread = "running")

\* C18: a wait_event step for topic e returns only from a state where the head
\* of the queue has topic e, and it removes exactly that head: the rest of the
\* queue is left as it was, in order.
C18_WaitEventHeadOnly ==
    [][(StepBegins /\ cur'.type = "wait_event" /\ cur'.res = "ok")
         => /\ eventQueue # <<>>
            /\ Head(eventQueue) = CurStep.event
            /\ eventQueue' = Tail(eventQueue)]_vars

\* a wait_event has returned and left other events in the queue
C18_Witness ==
    /\ cur.type = "wait_event" /\ cur.res = "ok"
    /\ eventQueue # <<>>
    /\ worker.pc = "running"

\* C17: a parallel step ends (its frame leaves the worker's stack) only when
\* every one of its pool tasks has ended, and when one of them threw, the
\* worker of a script whose own step it is leaves its loop with an error.
C17_ParallelJoinsAll ==
    [][(stack # <<>> /\ Top(stack).kind = "parallel" /\ Len(stack') < Len(stack))
         => LET f == Top(stack)
                children == f.first .. (f.first + f.n - 1)
            IN  /\ \A c \in children : pool[c].pc = "done"
                /\ (Len(stack) = 1 /\ \E c \in children : pool[c].res = "exc")
                       => worker'.exc # ""]_vars

\* C19: when the queue holds exactly one event, broadcast for event name T, a
\* pool task that is about to wait (or waits) in wait_event for T can return.
C19_BroadcastWakesWaiter ==
    \A c \in DOMAIN pool :
        (/\ Len(pool) = 2
         /\ pool[c].pc = "ready"
         /\ pool[c].step.type = "wait_event"
         /\ Len(eventQueue) = 1
         /\ Head(eventQueue).name = pool[c].step.event.name)
            => WaitEventReady(pool[c].step.event)

\* C20: in scenario S5 (first execution: the pool holds the listener A and the
\* broadcaster B), once A has received the event and begun the steps of
\* event_steps.ready and its listen_event step is over, A ended normally, each
\* of the steps L1, L2 has run exactly once and the queue is empty.
C20_ListenRunsEventSteps ==
    \A c \in DOMAIN pool :
        (/\ Len(pool) = 2
         /\ pool[c].step.type = "listen_event"
         /\ MarkCount("L1") >= 1
         /\ pool[c].pc = "done" \/ worker.pc = "aborted")
            => /\ pool[c].pc = "done" /\ pool[c].res = "ok"
               /\ MarkCount("L1") = 1 /\ MarkCount("L2") = 1
               /\ eventQueue = <<>>

\* the assign whose earlier attempts failed, of thread t (0: the worker)
AssignPending(t) ==
    /\ ThreadStack(t) # <<>>
    /\ Top(ThreadStack(t)).kind = "assign"
ThreadRaised(t) ==
    \/ worker.pc = "aborted"
    \/ IF t = 0 THEN worker.exc # "" ELSE pool[t].res = "exc"

C21_CallbacksWithoutLock == \A cb \in callbacks : cb.lock = "none"

\* C23: when the scope step of the script (its first step) ends, by returning
\* or by raising, its cleanup step K has run exactly once, each variable the
\* scope names is as the scope found it (same entry, or absent), and the
\* function table is the one the scope found.
C23_ScopeRestores ==
    [][(/\ worker.pc = "running"
        /\ stack # <<>>
        /\ stack[1].kind = "scope"
        /\ stack' = <<>> \/ stack'[1].kind # "scope")
          => LET f == stack[1]
                 vs == ScopeVariables(f.step)
             IN  /\ Has(f.step, "cleanup") => MarkCount("K")' = 1
                 /\ functions' = f.was.functions
                 /\ \A i \in 1..Len(vs) :
                       IF vs[i].name \in DOMAIN f.was.variables
                       THEN /\ vs[i].name \in DOMAIN variables'
                            /\ variables'[vs[i].name] = f.was.variables[vs[i].name]
                       ELSE vs[i].name \notin DOMAIN variables']_vars

\* C24: nested_script runs the named loaded script synchronously: when the
\* outer script's step after the nested_script begins, every step of the
\* nested script has run and the nested script has ended; and once the outer
\* worker leaves its loop unstopped, the step after the nested_script has run.
NestCase ==
    /\ worker.script = "A" /\ "A" \in DOMAIN scripts /\ "B" \in DOMAIN scripts
    /\ scripts["A"] = SNestOuter /\ scripts["B"] = SNestInner
    /\ worker.pc \in {"running", "exit"}

C24_NestedScriptSynchronous ==
    NestCase =>
        /\ MarkCount("O2") >= 1 =>
               MarkCount("N1") = 1 /\ MarkCount("N2") = 1 /\ second.thread # "running"
        /\ worker.pc = "exit" /\ ~stopRequested => MarkCount("O2") = 1

\* C25: when the worker ends with an error no step handled and a handler is
\* registered under the script's name, the handler is invoked exactly once,
\* with the error the last begun step raised, that step is the last one of the
\* run, and the worker ends idle.
C25_HandlerGetsRaisedError ==
    [][(/\ worker.pc = "exit" /\ worker'.pc # "exit"
        /\ worker.exc # "" /\ worker.script \in exceptionHandlers)
       => /\ cur.res = "exc"
          /\ handled' = Append(handled, [name |-> worker.script, e |-> cur.err])
          /\ worker'.pc = "done" /\ ~isRunning']_vars

\* C26: no error a step raises ends the host process, with or without a
\* handler, and a worker that has ended has left the interpreter idle.
C26_NoErrorEscapes ==
    /\ worker.pc # "aborted"
    /\ worker.pc = "done" /\ host.pc = "idle" => ~isRunning

-----------------------------------------------------------------------------
(* The driver supervisor (StandAloneComponent, POSIX build). One caller       *)
(* thread calls start(name) and stop(); every start that gets past its pipes  *)
(* makes a background thread; children are processes of the caller's group.   *)

interpreterVars ==
    <<scripts, labels, labelCache, gotoDepthCounter, variables, stopRequested,
      pauseRequested, isRunning, worker, idx, stack, host, cur, prev, trace, budget,
      executionThread, second, pool, eventQueue, marks, sleeps,
      functions, exceptionHandlers, handled, callbacks>>

DriverNames == {"d"}
\* what can fail in a start before the child exists
SpawnFailures == {"none", "pipe", "shm", "sem", "fork"}

Pids == DOMAIN procs
Unreaped(p) == procs[p].state # "reaped"
Living(p) == procs[p].state \in {"forked", "running"}
\* the children waitpid(handle, ...) and kill(handle, ...) address: the child
\* with that pid, or for 0 every child of the caller's process group
Addressed(handle) == {p \in Pids : handle = 0 \/ p = handle}

\* where a start returns to: the caller, or monitorDrivers in the loop
Ret(t) == IF t = 1 THEN "idle" ELSE "processMessages"

\* createSharedMemory: shm_open(SHM_NAME, O_CREAT) opens the object of that
\* name or makes one, and *shm_ptr = 0 resets it
createSharedMemory ==
    IF shm.name = 0
    THEN [name |-> Len(shm.objs) + 1, objs |-> Append(shm.objs, 0)]
    ELSE [shm EXCEPT !.objs[shm.name] = 0]

\* closeSharedMemory: munmap, close, shm_unlink(SHM_NAME)
closeSharedMemory(m) == [m EXCEPT !.name = 0]

\* startLocalDriver(name) up to the fork of startUnixProcess, by the caller or
\* by a background thread whose monitorDrivers restarts the driver: a failed
\* createPipes returns; a failure of shared memory, semaphore or fork returns
\* from startUnixProcess and goes on to the assignment of driverThread.
startLocalDriver(t, name, fail) ==
    /\ component = "alive"
    /\ IF t = 1 THEN threads[1].pc = "idle" /\ name \in DriverNames
       ELSE threads[t].pc = "restart" /\ name = driver.name
    /\ Len(threads) < MaxThreads
    /\ Len(procs) < MaxChildren
    /\ LET made == createSharedMemory
       IN  CASE fail = "pipe" ->
                  /\ threads' = [threads EXCEPT ![t].pc = Ret(t)]
                  /\ UNCHANGED <<procs, shm,
                                 registry>>
             [] fail = "shm" ->
                  /\ threads' = [threads EXCEPT ![t].pc = "assign", ![t].name = name,
                                                ![t].ok = FALSE]
                  /\ UNCHANGED <<procs, shm,
                                 registry>>
             [] fail \in {"sem", "fork"} ->
                  /\ threads' = [threads EXCEPT ![t].pc = "assign", ![t].name = name,
                                                ![t].ok = FALSE]
                  /\ shm' = closeSharedMemory(made)
                  /\ UNCHANGED procs
             [] fail = "none" ->
                  /\ procs' = Append(procs,
                         [name |-> name, state |-> "forked", exec |-> "none",
                          posted |-> FALSE, killed |-> FALSE, recorded |-> FALSE,
                          obj |-> made.name,
                          by |-> IF t = 1 THEN "start" ELSE "monitor",
                          after |-> threads[t].saw,
                          duringStop |-> threads[1].pc \in {"stopwait", "stopjoin"}])
                  /\ shm' = made
                  /\ threads' = [threads EXCEPT ![t].pc = "wait", ![t].name = name,
                                                ![t].pid = Len(procs) + 1,
                                                ![t].obj = made.name, ![t].ok = FALSE]
    /\ UNCHANGED <<driver, shouldExit, driverThread, component, stopsReturned,
                   registry>>
    /\ UNCHANGED interpreterVars

\* handleChildProcess: execlp replaces the child's image and nothing of the
\* handshake is left in it; when execlp fails the child writes -1, posts the
\* semaphore and exits. execlp of an empty name fails.
handleChildProcess(p, execs) ==
    /\ component = "alive"
    /\ procs[p].state = "forked"
    /\ execs => procs[p].name # ""
    /\ IF execs
       THEN /\ procs' = [procs EXCEPT ![p].state = "running", ![p].exec = "ok"]
            /\ shm' = shm
       ELSE /\ procs' = [procs EXCEPT ![p].state = "zombie", ![p].exec = "fail",
                                      ![p].posted = TRUE]
            /\ shm' = [shm EXCEPT !.objs[procs[p].obj] = -1]
    /\ UNCHANGED <<driver, shouldExit, driverThread, threads, component, stopsReturned,
                   registry>>
    /\ UNCHANGED interpreterVars

\* a driver that runs ends by itself
DriverExits(p) ==
    /\ component = "alive"
    /\ procs[p].state = "running"
    /\ procs' = [procs EXCEPT ![p].state = "zombie"]
    /\ UNCHANGED <<driver, shouldExit, driverThread, threads, shm, component,
                   stopsReturned,
                   registry>>
    /\ UNCHANGED interpreterVars

\* handleParentProcess: sem_timedwait with the 1 s deadline. Not posted: kill
\* and reap. Posted and -1 in the shared memory: reap. Posted otherwise:
\* record the pid and the parent's pipe ends. Then closeSharedMemory.
handleParentProcess(t) ==
    /\ component = "alive"
    /\ threads[t].pc = "wait"
    /\ LET p == threads[t].pid
           child == procs[p]
           failed == shm.objs[threads[t].obj] = -1
       IN  /\ child.posted /\ failed => ~Living(p)
           /\ procs' = IF ~child.posted
                       THEN [procs EXCEPT ![p].state = "reaped", ![p].killed = Living(p)]
                       ELSE IF failed THEN [procs EXCEPT ![p].state = "reaped"]
                       ELSE [procs EXCEPT ![p].recorded = TRUE]
           /\ driver' = IF child.posted /\ ~failed
                        THEN [driver EXCEPT !.processHandle = p, !.stdinFd = p,
                                            !.stdoutFd = p]
                        ELSE driver
           /\ threads' = [threads EXCEPT ![t].pc = "assign",
                                         ![t].ok = child.posted /\ ~failed]
    /\ shm' = closeSharedMemory(shm)
    /\ UNCHANGED <<shouldExit, driverThread, component, stopsReturned,
                   registry>>
    /\ UNCHANGED interpreterVars

\* startLocalDriver's last statement, impl_->driverThread = std::jthread(...):
\* the new thread runs backgroundProcessing at once; the move assignment then
\* joins the thread driverThread held. Assigned by that thread itself the join
\* throws inside a noexcept function and the process is terminated.
AssignDriverThread(t) ==
    /\ component = "alive"
    /\ threads[t].pc = "assign"
    /\ LET new == Len(threads) + 1
           made == [CallerThread EXCEPT !.pc = "loop", !.after = threads[t].ok]
           next == IF driverThread = 0 THEN Ret(t) ELSE "joining"
       IN  /\ threads' = Append([threads EXCEPT ![t].pc = next,
                                                ![t].target = driverThread], made)
           /\ driverThread' = new
           /\ component' = IF driverThread = t THEN "terminated" ELSE "alive"
    /\ UNCHANGED <<driver, shouldExit, procs, shm, stopsReturned,
                   registry>>
    /\ UNCHANGED interpreterVars

\* the join of the move assignment returns when the old thread has ended
AssignJoinReturns(t) ==
    /\ component = "alive"
    /\ threads[t].pc = "joining"
    /\ threads[threads[t].target].pc = "done"
    /\ threads' = [threads EXCEPT ![t].pc = Ret(t)]
    /\ UNCHANGED <<driver, shouldExit, driverThread, procs, shm, component,
                   stopsReturned,
                   registry>>
    /\ UNCHANGED interpreterVars

\* backgroundProcessing: while (!shouldExit)
backgroundProcessing(b) ==
    /\ component = "alive"
    /\ b > 1
    /\ threads[b].pc = "loop"
    /\ threads' = [threads EXCEPT ![b].pc = IF shouldExit THEN "done" ELSE "monitor"]
    /\ UNCHANGED <<driver, shouldExit, driverThread, procs, shm, component,
                   stopsReturned,
                   registry>>
    /\ UNCHANGED interpreterVars

\* the children waitpid(handle, ..., WNOHANG) can return
Exited(handle) == {p \in Addressed(handle) : procs[p].state = "zombie"}

\* monitorDrivers: waitpid(processHandle, &status, WNOHANG) returns 0 or -1
\* (return), or reaps a child that has exited, and then the driver is started
\* again under impl_->driver.name
monitorDrivers(b) ==
    /\ component = "alive"
    /\ threads[b].pc = "monitor"
    /\ IF Exited(driver.processHandle) = {}
       THEN /\ threads' = [threads EXCEPT ![b].pc = "processMessages"]
            /\ procs' = procs
       ELSE \E p \in Exited(driver.processHandle) :
               /\ procs' = [procs EXCEPT ![p].state = "reaped"]
               /\ threads' = [threads EXCEPT ![b].pc = "restart", ![b].saw = p]
    /\ UNCHANGED <<driver, shouldExit, driverThread, shm, component, stopsReturned,
                   registry>>
    /\ UNCHANGED interpreterVars

\* processMessages and the sleep of the loop
processMessages(b) ==
    /\ component = "alive"
    /\ threads[b].pc = "processMessages"
    /\ threads' = [threads EXCEPT ![b].pc = "loop"]
    /\ UNCHANGED <<driver, shouldExit, driverThread, procs, shm, component,
                   stopsReturned,
                   registry>>
    /\ UNCHANGED interpreterVars

\* stopLocalDriver, first part: close the descriptors, kill(processHandle,
\* SIGTERM). The handle 0 addresses the caller's whole process group, the
\* caller included: it ends there unless the host handles SIGTERM.
stopLocalDriver(survives) ==
    /\ component = "alive"
    /\ threads[1].pc = "idle"
    /\ stopsReturned < MaxStops
    /\ driver.processHandle # 0 => survives
    /\ procs' = [p \in Pids |->
                    IF p \in Addressed(driver.processHandle) /\ Living(p)
                    THEN [procs[p] EXCEPT !.state = "zombie"] ELSE procs[p]]
    /\ component' = IF survives THEN "alive" ELSE "terminated"
    /\ threads' = [threads EXCEPT ![1].pc = "stopwait"]
    /\ UNCHANGED <<driver, shouldExit, driverThread, shm, stopsReturned,
                   registry>>
    /\ UNCHANGED interpreterVars

\* stopLocalDriver, second part: waitpid(processHandle, nullptr, 0) returns
\* at once without a child to wait for, reaps one otherwise; shouldExit = true
StopWaits ==
    /\ component = "alive"
    /\ threads[1].pc = "stopwait"
    /\ LET waited == {p \in Addressed(driver.processHandle) : Unreaped(p)}
       IN  IF waited = {} THEN procs' = procs
           ELSE \E p \in Exited(driver.processHandle) :
                   procs' = [procs EXCEPT ![p].state = "reaped"]
    /\ shouldExit' = TRUE
    /\ threads' = [threads EXCEPT ![1].pc = "stopjoin"]
    /\ UNCHANGED <<driver, driverThread, shm, component, stopsReturned,
                   registry>>
    /\ UNCHANGED interpreterVars

\* a stop that returns without waiting for the background thread (a variant
\* C27 must tell apart)
StopJoinedAtOnce(b) == TRUE

\* driverThread.join() returns when the thread has left backgroundProcessing
StopJoined(b) == threads[b].pc = "done"

\* stopLocalDriver, last part: if (driverThread.joinable()) driverThread.join()
StopJoins ==
    /\ component = "alive"
    /\ threads[1].pc = "stopjoin"
    /\ driverThread # 0 => StopJoined(driverThread)
    /\ driverThread' = 0
    /\ threads' = [threads EXCEPT ![1].pc = "idle"]
    /\ stopsReturned' = stopsReturned + 1
    /\ UNCHANGED <<driver, shouldExit, procs, shm, component,
                   registry>>
    /\ UNCHANGED interpreterVars

\* The caller starts and stops the driver; the children and the background
\* threads run.
SupervisorNext ==
    \/ \E t \in DOMAIN threads, name \in DriverNames \cup {driver.name},
          fail \in SpawnFailures : startLocalDriver(t, name, fail)
    \/ \E p \in Pids, execs \in BOOLEAN : handleChildProcess(p, execs)
    \/ \E p \in Pids : DriverExits(p)
    \/ \E t \in DOMAIN threads : handleParentProcess(t)
    \/ \E t \in DOMAIN threads : AssignDriverThread(t)
    \/ \E t \in DOMAIN threads : AssignJoinReturns(t)
    \/ \E b \in DOMAIN threads : backgroundProcessing(b)
    \/ \E b \in DOMAIN threads : monitorDrivers(b)
    \/ \E b \in DOMAIN threads : processMessages(b)
    \/ \E survives \in BOOLEAN : stopLocalDriver(survives)
    \/ StopWaits
    \/ StopJoins

SupervisorSpec == Init /\ [][SupervisorNext]_vars

\* the background threads
Background == DOMAIN threads \ {1}
\* the handshake of child p is over: no thread waits on its semaphore
Handshaken(p) == \A t \in DOMAIN threads : ~(threads[t].pc = "wait" /\ threads[t].pid = p)

C28_SpawnHandshake ==
    \A p \in Pids :
        Handshaken(p) =>
            /\ procs[p].exec = "ok" => procs[p].recorded /\ ~procs[p].killed
            /\ procs[p].exec = "fail" => ~procs[p].recorded /\ procs[p].state = "reaped"
            /\ procs[p].killed => procs[p].exec = "none"

\* the child forked last: the driver's child once its handshake is over
Latest == Len(procs)

\* C29: a monitorDrivers call that runs while the driver's child (exec
\* succeeded, handshake over) is no longer alive and the supervisor is not
\* stopped restarts the driver, under the name the child was started with.
C29_ExitedDriverRestarted ==
    [][\A b \in Background :
          (/\ threads[b].pc = "monitor" /\ threads'[b].pc # "monitor"
           /\ ~shouldExit
           /\ procs # <<>> /\ Handshaken(Latest)
           /\ procs[Latest].exec = "ok" /\ ~Living(Latest))
          => threads'[b].pc = "restart" /\ driver.name = procs[Latest].name]_vars

\* C30: every background thread was made by a start that had recorded a
\* child, and a start that recorded none leaves the driver as it was.
C30_FailedStartNoWorker ==
    /\ [](\A b \in Background : threads[b].after)
    /\ [][\A t \in DOMAIN threads :
             threads[t].pc = "wait" /\ threads'[t].pc = "assign" /\ ~threads'[t].ok
                 => driver' = driver]_vars

\* The scope worker is a thread of its own: a step it can take it takes.
ScopeFairSpec ==
    ScopeSpec /\ WF_vars(WorkerExecuteStep \/ WorkerScopeEnd \/ WorkerLoopEnd \/ WorkerExit)

\* the worker stands at a top-level scope step with a non-empty variables map
AtScopeVariables ==
    /\ worker.pc = "running" /\ stack = <<>> /\ LoopCondition
    /\ Script[idx + 1].type = "scope"
    /\ ScopeVariables(Script[idx + 1]) # <<>>

\* C36: a scope step with a non-empty variables map that the worker reaches is
\* eventually behind it: the worker does not wait for itself to become idle.
C36_ScopeVariablesCompletes == AtScopeVariables ~> ~AtScopeVariables

\* the comparison of the script the worker executes, once its assign has begun
Compared == Script[1].value
ComparisonDone == Executing /\ cur.type = "assign" /\ cur.top = 0

\* C34: $eq and $ne of operands of different kinds fail with an error; of
\* operands of one kind $eq gives whether they are equal and $ne the negation.
C34_EqualityChecksKinds ==
    ComparisonDone =>
        IF determineType(Compared.l) # determineType(Compared.r)
        THEN cur.res = "exc"
        ELSE /\ cur.res = "ok"
             /\ variables["r"].value =
                    JBool((Compared.op = "$eq") <=> (Compared.l = Compared.r))

-----------------------------------------------------------------------------
(* Functions defined by function_def                                         *)

FunctionDefWith(name, params, defaults, steps) ==
    [type |-> "function_def", name |-> name, params |-> params,
     default_values |-> defaults, steps |-> steps]
CallPassing(function, params, result) ==
    [type |-> "call", function |-> function, params |-> params, result |-> result]

\* what the body of f returns: a variable of the store at the definition, a
\* passed parameter, a parameter left to its default, a variable assigned
\* after the definition; and a body with a step after its return
ClosureBodies ==
    {<<Return(JStr("x"))>>, <<Return(JStr("p"))>>, <<Return(JStr("q"))>>,
     <<Return(JStr("y"))>>, <<Return(JStr("p")), Assign("p", JNum(9))>>}
ClosurePassed == {[p |-> JNum(4)], [p |-> JNum(4), q |-> JNum(5)]}
SClosure(body, passed) ==
    <<Assign("x", JNum(1)),
      FunctionDefWith("f", <<"p", "q">>, [q |-> JNum(7)], body),
      Assign("x", JNum(2)),
      Assign("y", JNum(3)),
      CallPassing("f", passed, "r"),
      Log>>
ClosureLibrary == {SClosure(body, passed) : body \in ClosureBodies,
                                               passed \in ClosurePassed}

\* the end of the lambda of executeFunctionDef and of executeCall: the return
\* value is variables_["__return_value__"] when the store has it, which is
\* then erased, and null otherwise; executeCall stores it in the result
\* variable
WorkerCallReturn ==
    /\ worker.pc = "running"
    /\ stack # <<>>
    /\ Top(stack).kind = "call"
    /\ LET f == Top(stack)
           has == "__return_value__" \in DOMAIN variables
           returnValue == IF has THEN variables["__return_value__"].value ELSE JNull
           erased == [n \in DOMAIN variables \ {"__return_value__"} |-> variables[n]]
           d == Deliver(Pop(stack), "ok", "", stopRequested)
       IN  /\ variables' = IF Has(f.step, "result") /\ f.step.result # ""
                           THEN Put(erased, f.step.result,
                                    AssignedEntry(f.step.result, returnValue))
                           ELSE erased
           /\ Settle(d, f.idx)
           /\ eventQueue' = Popped(eventQueue, d)
    /\ UNCHANGED <<scripts, labels, labelCache, gotoDepthCounter, stopRequested,
                   pauseRequested, isRunning, host, cur, prev, trace, budget,
                   executionThread, second, pool, marks, functions,
                   exceptionHandlers, handled, callbacks,
                   driver, shouldExit, driverThread, threads, procs, shm, component, stopsReturned,
                   registry>>

\* The host loads and runs scripts that define a function and call it.
ClosureNext ==
    \/ \E name \in FlowNames, script \in ClosureLibrary : LoadScript(name, script)
    \/ \E name \in FlowNames : ExecuteBegin(name)
    \/ ExecuteSpawn
    \/ WorkerExecuteStep
    \/ WorkerCallReturn
    \/ WorkerLoopEnd
    \/ WorkerExit

ClosureSpec == Init /\ [][ClosureNext]_vars

\* the call of a defined function has just entered the body
CallEntered ==
    /\ stack # <<>>
    /\ stack[1].kind = "call"
    /\ stack[1].phase = "body"
    /\ cur.type = "call"
\* the body has ended and the call is about to return
CallReturning == stack # <<>> /\ Top(stack).kind = "call" /\ Top(stack).phase = "return"

\* the store the body starts from: the captured values, and each declared
\* parameter at the passed value, or else at its default
BodyStartsFromClosure ==
    LET call == stack[1].step
        f == functions[call.function]
        declared == {ParamNames(f.def)[i] : i \in DOMAIN ParamNames(f.def)}
    IN  /\ \A n \in DOMAIN f.closure \ declared :
               n \in DOMAIN variables /\ variables[n].value = f.closure[n]
        /\ \A p \in declared :
               IF p \in DOMAIN call.params
               THEN p \in DOMAIN variables /\ variables[p].value = call.params[p]
               ELSE p \in DOMAIN DefaultValues(f.def) =>
                        /\ p \in DOMAIN variables
                        /\ variables[p].value = DefaultValues(f.def)[p]

-----------------------------------------------------------------------------
(* execute of a name that is not loaded                                      *)

\* the last call of the host was an execute that threw "not found"
ExecuteFailed == host.pc = "idle" /\ host.last.op = "execute" /\ ~host.last.ok

\* C37: after an execute(name) that failed because no script is loaded under
\* the name, no worker is running and the running flag is clear, which is what
\* getVariable and setVariable wait for before they return.
C37_FailedExecuteLeavesIdle == ExecuteFailed => WorkerIdle /\ ~isRunning

-----------------------------------------------------------------------------
(* getVariable's wait on cv_, and the worker's epilogue, step by step        *)

\* getVariable(name): std::unique_lock lock(mtx_) is taken
GetVariableBegin(name) ==
    /\ host.pc = "idle"
    /\ budget.gets > 0
    /\ ~HoldsMtx(stack)
    /\ budget' = [budget EXCEPT !.gets = @ - 1]
    /\ host' = [host EXCEPT !.pc = "get", !.name = name]
    /\ UNCHANGED <<scripts, labels, labelCache, gotoDepthCounter, variables,
                   stopRequested, pauseRequested, isRunning, worker, idx, stack,
                   cur, prev, trace,
                   executionThread, second, pool, eventQueue, marks, sleeps,
                   functions, exceptionHandlers, handled, callbacks,
                   driver, shouldExit, driverThread, threads, procs, shm, component, stopsReturned,
                   registry>>

\* cv_.wait(lock, pred) is while (!pred()) wait(lock): the predicate
\* !isRunning_ is evaluated; when it holds the store is read and the call
\* returns, otherwise the thread goes on to wait(lock)
GetVariableCheck ==
    /\ host.pc = "get"
    /\ host' = IF ~isRunning
               THEN [host EXCEPT !.pc = "idle", !.last =
                        IF host.name \in DOMAIN variables
                        THEN Called("getVariable", host.name, variables[host.name].value,
                                    variables[host.name].type, TRUE)
                        ELSE Called("getVariable", host.name, JNull, "", FALSE)]
               ELSE [host EXCEPT !.pc = "towait"]
    /\ UNCHANGED <<scripts, labels, labelCache, gotoDepthCounter, variables,
                   stopRequested, pauseRequested, isRunning, worker, idx, stack,
                   cur, prev, trace, budget,
                   executionThread, second, pool, eventQueue, marks, sleeps,
                   functions, exceptionHandlers, handled, callbacks,
                   driver, shouldExit, driverThread, threads, procs, shm, component, stopsReturned,
                   registry>>

\* wait(lock): the lock is released and the thread blocks until a notification
GetVariableBlock ==
    /\ host.pc = "towait"
    /\ host' = [host EXCEPT !.pc = "waiting"]
    /\ UNCHANGED <<scripts, labels, labelCache, gotoDepthCounter, variables,
                   stopRequested, pauseRequested, isRunning, worker, idx, stack,
                   cur, prev, trace, budget,
                   executionThread, second, pool, eventQueue, marks, sleeps,
                   functions, exceptionHandlers, handled, callbacks,
                   driver, shouldExit, driverThread, threads, procs, shm, component, stopsReturned,
                   registry>>

\* wait(lock) may also return without a notification (a spurious wake-up);
\* nothing makes it do so
GetVariableSpurious ==
    /\ host.pc = "waiting"
    /\ host' = [host EXCEPT !.pc = "get"]
    /\ UNCHANGED <<scripts, labels, labelCache, gotoDepthCounter, variables,
                   stopRequested, pauseRequested, isRunning, worker, idx, stack,
                   cur, prev, trace, budget,
                   executionThread, second, pool, eventQueue, marks, sleeps,
                   functions, exceptionHandlers, handled, callbacks,
                   driver, shouldExit, driverThread, threads, procs, shm, component, stopsReturned,
                   registry>>

\* the worker's epilogue, first statement: isRunning_ = false (mtx_ not held)
WorkerClearRunning ==
    /\ worker.pc = "exit"
    /\ isRunning' = FALSE
    /\ worker' = [worker EXCEPT !.pc = "notify"]
    /\ UNCHANGED <<scripts, labels, labelCache, gotoDepthCounter, variables,
                   stopRequested, pauseRequested, idx, stack, host, cur, prev, trace,
                   budget,
                   executionThread, second, pool, eventQueue, marks, sleeps,
                   functions, exceptionHandlers, handled, callbacks,
                   driver, shouldExit, driverThread, threads, procs, shm, component, stopsReturned,
                   registry>>

\* the worker's epilogue, the rest: cv_.notify_all() wakes the threads that
\* are blocked in wait at this moment, which take the lock and evaluate the
\* predicate again; then the exception of the run, if any, is handled
WorkerNotifyAll ==
    /\ worker.pc = "notify"
    /\ host' = IF host.pc = "waiting" THEN [host EXCEPT !.pc = "get"] ELSE host
    /\ worker' = [worker EXCEPT !.pc = IF worker.exc # "" /\ ~HandlerInvoked
                                          /\ IsNested(worker.exc)
                                       THEN "aborted" ELSE "done"]
    /\ stack' = <<>>
    /\ handled' = IF HandlerInvoked
                  THEN Append(handled, [name |-> worker.script, e |-> worker.exc])
                  ELSE handled
    /\ callbacks' = IF HandlerInvoked
                    THEN callbacks \cup {[kind |-> "handler", lock |-> "shared"]}
                    ELSE callbacks
    /\ UNCHANGED <<scripts, labels, labelCache, gotoDepthCounter, variables,
                   stopRequested, pauseRequested, isRunning, idx, cur, prev, trace,
                   budget,
                   executionThread, second, pool, eventQueue, marks, sleeps,
                   functions, exceptionHandlers,
                   driver, shouldExit, driverThread, threads, procs, shm, component, stopsReturned,
                   registry>>

\* The host runs a script and reads a variable; the read and the end of the
\* worker interleave statement by statement.
WaitNext ==
    \/ \E name \in FlowNames, script \in StoreLibrary : LoadScript(name, script)
    \/ \E name \in FlowNames : ExecuteBegin(name)
    \/ ExecuteSpawn
    \/ WorkerExecuteStep
    \/ WorkerLoopEnd
    \/ WorkerClearRunning
    \/ WorkerNotifyAll
    \/ \E name \in SetNames : GetVariableBegin(name)
    \/ GetVariableCheck
    \/ GetVariableBlock
    \/ GetVariableSpurious

WaitSpec == Init /\ [][WaitNext]_vars

\* the worker of the last execute has cleared the flag and notified
WorkerNotified == worker.pc \in {"done", "aborted"} /\ ~isRunning

\* C38: a getVariable that found the script running is not left blocked in
\* cv_.wait once the worker has cleared the running flag and made its
\* notification: the notification reaches it and the call returns.
C38_NoMissedWakeup == ~(host.pc = "waiting" /\ WorkerNotified)

-----------------------------------------------------------------------------
(* loadScript of a script whose pre-processing fails                         *)

\* a step whose text holds a macro token; no macro is registered with the
\* generator, so every token names an unknown macro
MacroToken == JStr("${u}")
UsesMacro(step) == Has(step, "message") /\ step.message = MacroToken
SMacro == <<Log, [type |-> "print", message |-> MacroToken]>>
MacroLibrary == {SMacro}

\* TaskGenerator::processJson, which substitutes the macro tokens of the
\* script in place and fails on an unknown macro
processJson(script) ==
    [ok |-> \A i \in DOMAIN script : ~UsesMacro(script[i]), script |-> script]

\* prepareScript: false when processJson throws
prepareScript(script) == processJson(script).ok

\* loadScript(name, script) when prepareScript returns false: the script has
\* been stored in scripts_[name] before prepareScript works on that entry, and
\* the runtime_error is thrown afterwards; the labels are not parsed
LoadScriptUnprepared(name, script) ==
    /\ host.pc = "idle"
    /\ WorkerIdle
    /\ budget.loads > 0
    /\ ~prepareScript(script)
    /\ budget' = [budget EXCEPT !.loads = @ - 1]
    /\ scripts' = Put(scripts, name, processJson(script).script)
    /\ host' = [host EXCEPT !.last = Called("loadScript", name, JNull, "", FALSE)]
    /\ UNCHANGED <<labels, labelCache, gotoDepthCounter, variables, stopRequested,
                   pauseRequested, isRunning, worker, idx, stack, cur, prev, trace,
                   executionThread, second, pool, eventQueue, marks, sleeps,
                   functions, exceptionHandlers, handled, callbacks,
                   driver, shouldExit, driverThread, threads, procs, shm, component, stopsReturned,
                   registry>>

\* The host loads scripts, some of which name an unknown macro, and runs them.
PrepareNext ==
    \/ \E name \in ScriptNames, script \in StoreLibrary : LoadScript(name, script)
    \/ \E name \in ScriptNames, script \in MacroLibrary : LoadScriptUnprepared(name, script)
    \/ \E name \in ScriptNames : ExecuteBegin(name)
    \/ ExecuteSpawn
    \/ WorkerExecuteStep
    \/ WorkerLoopEnd
    \/ WorkerExit

PrepareSpec == Init /\ [][PrepareNext]_vars

\* hasScript(name) and getScript(name)
hasScript(table, name) == name \in DOMAIN table
getScript(table, name) == IF name \in DOMAIN table THEN <<table[name]>> ELSE <<>>

\* C39: a loadScript call that throws because the pre-processing failed leaves
\* the script table as it was: hasScript and getScript return for every name
\* what they returned before the call.
C39_FailedLoadKeepsTable ==
    [][(host'.last # host.last /\ host'.last.op = "loadScript" /\ ~host'.last.ok)
        => \A name \in ScriptNames :
               /\ hasScript(scripts', name) = hasScript(scripts, name)
               /\ getScript(scripts', name) = getScript(scripts, name)]_vars

-----------------------------------------------------------------------------
(* The supervisor used again after a stop                                    *)

\* no stop() is in progress
NotStopping == threads[1].pc \notin {"stopwait", "stopjoin"}
\* the caller is inside the move assignment of a start, joining a background
\* thread that has not left its loop, with the stop flag clear: only stop()
\* sets the flag, and the caller is the thread that would call it
StartWaitsForLoop ==
    /\ threads[1].pc = "joining"
    /\ threads[threads[1].target].pc # "done"
    /\ ~shouldExit

\* C40: after a stop() has returned, the background thread a later start has
\* put in driverThread does not leave its loop while no stop() is in progress
\* (the flag of the earlier stop does not end it), and a start() never waits
\* for a background loop that nothing will end.
C40_SupervisorReusable ==
    /\ [][\A b \in Background :
             (/\ stopsReturned > 0 /\ NotStopping
              /\ b = driverThread /\ threads[b].pc = "loop")
             => threads'[b].pc # "done"]_vars
    /\ [](~StartWaitsForLoop)

-----------------------------------------------------------------------------
(* The component manager (ComponentManager)                                  *)
(*                                                                           *)
(* The module loader, the addon manager, the global pointer map and the      *)
(* components themselves are collaborators; the manager's own code decides   *)
(* when each of them is called.                                              *)

supervisorVars ==
    <<driver, shouldExit, driverThread, threads, procs, shm, component, stopsReturned>>

Qualified == {"a.c", "a.d", "b.e"}
\* one entry of a manifest's "modules" under the addon's name; the
\* dependencies are qualified names
Module(addon, name, full, dependencies) ==
    [addon |-> addon, name |-> name, full |-> full, entry |-> "create",
     dependencies |-> dependencies]
ModuleC == Module("a", "c", "a.c", <<"a.d">>)
ModuleD == Module("a", "d", "a.d", <<>>)
ModuleE == Module("b", "e", "b.e", <<"a.d">>)
\* the manifests of addon a list c and d in either order
ManifestsA == {<<ModuleC, ModuleD>>, <<ModuleD, ModuleC>>}
ManifestB == <<ModuleE>>

\* resolveDependencies(getQualifiedSubDirs(path)): the addon directories in
\* dependency order; addon b, which depends on addon a, comes after it, and
\* is also found alone when a is not installed; no addon may be found at all
resolveDependencies ==
    {a : a \in ManifestsA} \cup {a \o ManifestB : a \in ManifestsA}
        \cup {ManifestB, <<>>}

\* what the collaborators answer to one loadSharedComponent: the library
\* does not load, the factory returns no instance, initialize() returns
\* false or throws, or all succeed
SharedOutcomes == {"ok", "noLibrary", "noInstance", "initFails"}

\* GetWeakPtr<Component>(name): the pointer registered under the name, or an
\* empty reference
GetWeakPtr(reg, name) == IF name \in reg.ptrs THEN "ref" ELSE "empty"

\* loadSharedComponent(component_name, addon_name, module_path, entry,
\* dependencies): LoadModule; GetInstance; every non-empty dependency is
\* injected as GetWeakPtr(dependency); initialize(); on true the component is
\* kept in m_Components and added to the global pointers
loadSharedComponent(reg, m, outcome) ==
    LET loaded == [reg EXCEPT !.libraries = @ \cup {m.full}]
        others == [i \in DOMAIN m.dependencies |->
                      [component |-> m.full, dependency |-> m.dependencies[i],
                       ref |-> GetWeakPtr(reg, m.dependencies[i])]]
        injected == [loaded EXCEPT
                        !.injected = @ \cup {others[i] : i \in DOMAIN others},
                        !.called = @ \cup {m}]
    IN  CASE outcome = "noLibrary" -> [ok |-> FALSE, reg |-> reg]
          [] m.entry = "" \/ outcome = "noInstance" -> [ok |-> FALSE, reg |-> loaded]
          [] outcome = "initFails" -> [ok |-> FALSE, reg |-> injected]
          [] OTHER ->
               [ok |-> TRUE,
                reg |-> [injected EXCEPT
                            !.components = Put(@, m.full, [dependencies |-> m.dependencies]),
                            !.ptrs = @ \cup {m.full}]]

Returned(reg, op, name, res) ==
    [reg EXCEPT !.last = [seq |-> 1 - reg.last.seq, op |-> op, name |-> name, res |-> res]]

\* Initialize, up to its loop: the loading list
Initialize(dirs) ==
    /\ registry.pc = "new"
    /\ registry' = [registry EXCEPT !.pc = "startup", !.todo = dirs]
    /\ UNCHANGED interpreterVars
    /\ UNCHANGED supervisorVars

\* Initialize, one turn of its loop over the modules of the manifests: a
\* loadSharedComponent that returns false ends the start-up with an exception
InitializeLoads(outcome) ==
    /\ registry.pc = "startup"
    /\ registry.todo # <<>>
    /\ LET r == loadSharedComponent(registry, Head(registry.todo), outcome)
       IN  registry' = [r.reg EXCEPT !.todo = Tail(@),
                                     !.pc = IF r.ok THEN "startup" ELSE "fatal"]
    /\ UNCHANGED interpreterVars
    /\ UNCHANGED supervisorVars

\* Initialize returns true
InitializeEnds ==
    /\ registry.pc = "startup"
    /\ registry.todo = <<>>
    /\ registry' = [registry EXCEPT !.pc = "ready"]
    /\ UNCHANGED interpreterVars
    /\ UNCHANGED supervisorVars

\* what a loadComponent call finds: no folder (or no package.json or library
\* file in it), a library that does not load, a package.json that does not
\* parse, one whose "main" has the component, one whose "main" has not
LoadFindings == {"noFolder", "loadFails", "parseError", "hasMain", "noMain"}
ModuleNames == {"m", "n"}

\* checkComponent: true at once when the module is loaded; otherwise the
\* folder, package.json and library file are checked and the library loaded
checkComponent(reg, module, found) ==
    IF module \in reg.libraries THEN [ok |-> TRUE, reg |-> reg]
    ELSE IF found \in {"noFolder", "loadFails"} THEN [ok |-> FALSE, reg |-> reg]
    ELSE [ok |-> TRUE, reg |-> [reg EXCEPT !.libraries = @ \cup {module}]]

\* loadComponentInfo: m_ComponentInfos[module_name] = json::parse(file)
loadComponentInfo(reg, module, found) ==
    IF found \in {"noFolder", "parseError"} THEN [ok |-> FALSE, reg |-> reg]
    ELSE [ok |-> TRUE, reg |-> [reg EXCEPT !.infos = Put(@, module, found)]]

\* checkComponentInfo: false when "main" contains the component; otherwise
\* component_info["main"][component_name]["m_func_name"] is null and its
\* conversion to std::string throws a json type_error
checkComponentInfo(reg, module) ==
    IF module \notin DOMAIN reg.infos THEN "false"
    ELSE IF reg.infos[module] = "hasMain" THEN "false"
    ELSE "throws"

\* loadComponent(type, {module_name, module_path, component_name})
loadComponent(module, found) ==
    /\ registry.pc = "ready"
    /\ LET checked == checkComponent(registry, module, found)
           info == loadComponentInfo(checked.reg, module, found)
       IN  registry' =
               IF ~checked.ok THEN Returned(registry, "loadComponent", module, "false")
               ELSE IF ~info.ok THEN Returned(checked.reg, "loadComponent", module, "false")
               ELSE Returned(info.reg, "loadComponent", module,
                             checkComponentInfo(info.reg, module))
    /\ UNCHANGED interpreterVars
    /\ UNCHANGED supervisorVars

\* UnloadModule(name): the library is unloaded when it is loaded
UnloadModule(reg, name) ==
    [ok |-> name \in reg.libraries, reg |-> [reg EXCEPT !.libraries = @ \ {name}]]

\* unloadSharedComponent({component_name}): UnloadModule and nothing else
unloadSharedComponent(name) ==
    /\ registry.pc = "ready"
    /\ LET r == UnloadModule(registry, name)
       IN  registry' = Returned(r.reg, "unloadSharedComponent", name,
                                IF r.ok THEN "true" ELSE "false")
    /\ UNCHANGED interpreterVars
    /\ UNCHANGED supervisorVars

\* getComponent(type, name)
getComponent(reg, name) == "nullptr"

\* The manager starts up over the addons found, then loads and unloads.
RegistryNext ==
    \/ \E dirs \in resolveDependencies : Initialize(dirs)
    \/ \E outcome \in SharedOutcomes : InitializeLoads(outcome)
    \/ InitializeEnds
    \/ \E module \in ModuleNames, found \in LoadFindings : loadComponent(module, found)
    \/ \E name \in Qualified \cup ModuleNames : unloadSharedComponent(name)

RegistrySpec == Init /\ [][RegistryNext]_vars

\* C31: initialize() is called on a component only when each of its
\* dependencies is initialized and registered (kept by the manager and in the
\* global pointers), and no dependency is injected as an empty reference.
C31_DependenciesFirst ==
    /\ [][\A m \in registry'.called \ registry.called :
             \A i \in DOMAIN m.dependencies :
                 /\ m.dependencies[i] \in DOMAIN registry.components
                 /\ m.dependencies[i] \in registry.ptrs]_vars
    /\ [](\A i \in registry.injected : i.ref # "empty")


\* what loadComponent can add to or change in the manager
RegistryContent(reg) == <<reg.libraries, reg.components, reg.ptrs, reg.infos>>
\* the call that has just returned
JustReturned(op, res) ==
    /\ registry'.last # registry.last
    /\ registry'.last.op = op
    /\ registry'.last.res = res

\* C32: a loadComponent call after start-up that returns false leaves the
\* manager as it was: no library, component, global pointer or manifest
\* information is added or changed.
C32_FailedLoadKeepsRegistry ==
    [][JustReturned("loadComponent", "false")
           => RegistryContent(registry') = RegistryContent(registry)]_vars

\* the named operations a component exposes to the interpreter
Operations(name) ==
    CASE name = "a.c" -> {"a.c.run"}
      [] name = "a.d" -> {"a.d.run"}
      [] OTHER -> {"b.e.run"}
\* the component is loaded: the manager keeps it
Loaded(name) == name \in DOMAIN registry.components

\* C33: the operations of a component are in the interpreter's function table
\* exactly while the component is loaded, and after an unload that returned
\* true getComponent finds nothing under the name and none of its operations
\* is in the function table.
C33_OperationsIffLoaded ==
    /\ \A name \in Qualified : Loaded(name) <=> Operations(name) \subseteq DOMAIN functions
    /\ (registry.last.op = "unloadSharedComponent" /\ registry.last.res = "true"
        /\ registry.last.name \in Qualified)
           => /\ getComponent(registry, registry.last.name) = "nullptr"
              /\ ~Loaded(registry.last.name)
              /\ Operations(registry.last.name) \cap DOMAIN functions = {}

=============================================================================
